---------------------------- MODULE Spec2Model ----------------------------
(***************************************************************************)
(* peapod: a layer-2 proxy for IEEE 802.1X EAPOL frames.                   *)
(*                                                                         *)
(* The module models the main event loop (proxy.c), the packet codec      *)
(* (packet.c), the filter/script engine (process.c) and interface         *)
(* bring-up (iface.c).  Bytes are naturals 0..255, a MAC address is a     *)
(* sequence of ETH_ALEN bytes, an unsigned 32-bit integer is a pair of    *)
(* 16-bit halves <<hi, lo>>.                                               *)
(***************************************************************************)
EXTENDS Integers, Sequences, FiniteSets, TLC

(***************************************************************************)
(* Bounds of the model.                                                    *)
(***************************************************************************)
NumIfaces == 3
MaxFrames == 2
MaxFaults == 1
MaxSignals == 2
MaxB64Len == 4
MaxScriptFails == 2
MaxType == 10
MaxCode == 5

(***************************************************************************)
(* Program constants.                                                      *)
(***************************************************************************)
ETH_ALEN == 6
TCI_NO_DOT1Q == 239
TCI_UNTOUCHED == 255
TCI_UNTOUCHED_16 == 65535
IFACE_SET_MAC == 255
EAPOL_EAP == 0
PROCESS_EGRESS == 1
PROCESS_INGRESS == 0
MinFrameLen == 60
KernelMtu == 1500

EXIT_SUCCESS == 0
EXIT_FAILURE == 1
\* exit status of a process killed by abort(), and by a fault on a bad pointer
ABORTED == 134
CRASHED == 139

\* NULL, for a path; a struct pointer that may be NULL is a record whose
\* field set tells whether it points to anything
Nil == "NULL"

Ifaces == 1..NumIfaces

\* SIGHUP, SIGINT, SIGUSR1, SIGTERM in the order the kernel delivers them
SignalOrder == << "HUP", "INT", "USR1", "TERM" >>
Signals == {"HUP", "INT", "USR1", "TERM"}
Fatal == {"INT", "TERM"}
NoSignals == [s \in Signals |-> 0]

(***************************************************************************)
(* Bitwise arithmetic on naturals.                                         *)
(***************************************************************************)
RECURSIVE BitAnd(_, _)
BitAnd(a, b) ==
    IF a = 0 \/ b = 0 THEN 0
    ELSE (a % 2) * (b % 2) + 2 * BitAnd(a \div 2, b \div 2)

RECURSIVE BitOr(_, _)
BitOr(a, b) ==
    IF a = 0 THEN b
    ELSE IF b = 0 THEN a
    ELSE (IF a % 2 = 1 \/ b % 2 = 1 THEN 1 ELSE 0)
         + 2 * BitOr(a \div 2, b \div 2)

\* x << n on an unsigned 32-bit integer held as <<hi, lo>>, n < 16
Shl32(x, n) ==
    << (x[1] * (2 ^ n) + (x[2] * (2 ^ n)) \div 65536) % 65536,
       (x[2] * (2 ^ n)) % 65536 >>

\* x | y on an unsigned 32-bit integer, y < 65536
Or32(x, y) == << x[1], BitOr(x[2], y) >>

\* htonl(): the four bytes of x in network (memory) order
htonl(x) == << x[1] \div 256, x[1] % 256, x[2] \div 256, x[2] % 256 >>

\* (uint8_t)(1 << n) for a shift the C standard defines (n < 31)
Bit8(n) == (2 ^ n) % 256

(***************************************************************************)
(* packet.c: TCI <-> 802.1Q tag                                            *)
(***************************************************************************)
ETH_P_8021Q == 33024
PCP_MASK == 7
DEI_MASK == 1
VID_MASK == 4095

ZeroTci == [pcp |-> 0, dei |-> 0, vid |-> 0]

\* the tag with the PCP not shifted past the DEI bit
packet_tcitonl_noshift(tci) ==
    LET r0 == << 0, ETH_P_8021Q >>
        r1 == Or32(Or32(Shl32(r0, 4), BitAnd(tci.pcp, PCP_MASK)),
                   BitAnd(tci.dei, DEI_MASK))
        r2 == Or32(Shl32(r1, 12), BitAnd(tci.vid, VID_MASK))
    IN  htonl(r2)

packet_tcitonl(tci) ==
    LET r0 == << 0, ETH_P_8021Q >>
        r1 == Or32(Or32(Shl32(r0, 4), BitAnd(tci.pcp, PCP_MASK) * 2),
                   BitAnd(tci.dei, DEI_MASK))
        r2 == Or32(Shl32(r1, 12), BitAnd(tci.vid, VID_MASK))
    IN  htonl(r2)

\* packet_recvmsg(): decode of aux->tp_vlan_tci into a struct tci_t
tci_decode(dot1q) ==
    [pcp |-> BitAnd(dot1q, 57344) \div 8192,
     dei |-> BitAnd(dot1q, 4096) \div 4096,
     vid |-> BitAnd(dot1q, 4095)]

(***************************************************************************)
(* process.c: filter()                                                     *)
(***************************************************************************)
\* the code mask applied to frames of every type
filter_anytype(fltr, type, code) ==
    IF BitAnd(fltr.frame, Bit8(type)) # 0 THEN 1
    ELSE IF BitAnd(fltr.packet, Bit8(code)) # 0 THEN 1
    ELSE 0

filter(fltr, type, code) ==
    IF BitAnd(fltr.frame, Bit8(type)) # 0 THEN 1
    ELSE IF type = EAPOL_EAP /\ BitAnd(fltr.packet, Bit8(code)) # 0 THEN 1
    ELSE 0


(***************************************************************************)
(* Frames and interface policies the model draws its inputs from.          *)
(***************************************************************************)
Zeros(n) == [k \in 1..n |-> 0]

Pad(s, n) == s \o Zeros(n - Len(s))

ZeroMac == Zeros(ETH_ALEN)
MacPAE == << 1, 128, 194, 0, 0, 3 >>
MacSupp == << 2, 0, 0, 0, 0, 1 >>
MacAuth == << 170, 187, 204, 221, 238, 255 >>
HwAddr(i) == << 2, 0, 0, 0, 16, i >>

\* an EAPOL MPDU: EtherType 0x888e, version, type, body length, body
Mpdu(type, body) ==
    Pad(<< 136, 142, 2, type, 0, Len(body) >> \o body,
        MinFrameLen - 2 * ETH_ALEN)

MpduEapRequest == Mpdu(0, << 1, 5, 0, 5, 1 >>)
MpduEapSuccess == Mpdu(0, << 3, 6, 0, 4 >>)
MpduStart == Mpdu(1, << >>)

\* struct packet_auxdata_t as delivered in the PACKET_AUXDATA cmsg
Aux(valid, tpid, tci, tplen) ==
    [set |-> TRUE, vlan_valid |-> valid, tp_vlan_tpid |-> tpid,
     tp_vlan_tci |-> tci, tp_len |-> tplen]

\* no PACKET_AUXDATA cmsg came with the frame
NoAux ==
    [set |-> FALSE, vlan_valid |-> FALSE, tp_vlan_tpid |-> 0,
     tp_vlan_tci |-> 0, tp_len |-> 0]

\* what one recvmsg(2) call delivers: return value, the three iovecs, cmsg
RecvOk(src, mpdu, aux) ==
    [rlen |-> 2 * ETH_ALEN + Len(mpdu), dst |-> MacPAE, src |-> src,
     mpdu |-> mpdu, aux |-> aux]

AuxPlain(mpdu) == Aux(FALSE, 0, 0, 2 * ETH_ALEN + Len(mpdu))
AuxTagged(mpdu, tci) == Aux(TRUE, ETH_P_8021Q, tci, 2 * ETH_ALEN + Len(mpdu))

RecvError == [rlen |-> -1, dst |-> ZeroMac, src |-> ZeroMac, mpdu |-> << >>,
              aux |-> NoAux]
RecvRunt ==
    [rlen |-> MinFrameLen - 1, dst |-> MacPAE, src |-> MacSupp,
     mpdu |-> SubSeq(MpduStart, 1, MinFrameLen - 1 - 2 * ETH_ALEN),
     aux |-> Aux(FALSE, 0, 0, MinFrameLen - 1)]
RecvGiant ==
    [rlen |-> MinFrameLen, dst |-> MacPAE, src |-> MacSupp,
     mpdu |-> MpduStart, aux |-> Aux(FALSE, 0, 0, MinFrameLen + 1)]

Scenarios == {"filter", "tci", "mac", "script"}

\* the frames that arrive in each scenario
GoodFrames(sc) ==
    CASE sc = "filter" ->
           { RecvOk(MacSupp, MpduEapRequest, AuxPlain(MpduEapRequest)),
             RecvOk(MacAuth, MpduEapSuccess, AuxPlain(MpduEapSuccess)),
             RecvOk(MacSupp, MpduStart, AuxPlain(MpduStart)) }
      [] sc = "tci" ->
           { RecvOk(MacSupp, MpduStart, NoAux),
             RecvOk(MacSupp, MpduStart, AuxTagged(MpduStart, 28670)),
             RecvOk(MacSupp, MpduEapRequest,
                    AuxTagged(MpduEapRequest, 45156)),
             RecvOk(MacSupp, MpduStart,
                    Aux(TRUE, 34984, 28670, 2 * ETH_ALEN + Len(MpduStart))) }
      [] sc = "mac" ->
           { RecvOk(MacSupp, MpduStart, AuxPlain(MpduStart)),
             RecvOk(MacAuth, MpduEapSuccess, AuxPlain(MpduEapSuccess)) }
      [] sc = "signal" ->
           { RecvOk(MacSupp, MpduStart, AuxPlain(MpduStart)) }
      [] sc = "script" ->
           { RecvOk(MacSupp, MpduStart, AuxPlain(MpduStart)) }

\* struct action_t; beyond is what a read past the end of the struct finds
NoAction ==
    [set |-> FALSE, frame |-> [t \in 0..4 |-> Nil],
     packet |-> [c \in 0..4 |-> Nil], beyond |-> Nil]
NoFilter == [set |-> FALSE, frame |-> 0, packet |-> 0]
NoTci == [set |-> FALSE, pcp |-> 0, dei |-> 0, vid |-> 0]

Ingress(f, a) == [set |-> TRUE, filter |-> f, action |-> a]
Egress(t, f, a) == [set |-> TRUE, tci |-> t, filter |-> f, action |-> a]
Filter(fr, pk) == [set |-> TRUE, frame |-> fr, packet |-> pk]
Tci(p, d, v) == [set |-> TRUE, pcp |-> p, dei |-> d, vid |-> v]

NoIngress == [set |-> FALSE, filter |-> NoFilter, action |-> NoAction]
NoEgress ==
    [set |-> FALSE, tci |-> NoTci, filter |-> NoFilter, action |-> NoAction]

ActStart == [NoAction EXCEPT !.set = TRUE, !.frame[1] = "/bin/on-start"]
ActEap == [NoAction EXCEPT !.set = TRUE, !.packet[1] = "/bin/on-request",
                           !.packet[3] = "/bin/on-success"]

\* the policies one interface may carry in each scenario
Policies(sc) ==
    CASE sc = "filter" ->
           { [ingress |-> NoIngress, egress |-> NoEgress],
             [ingress |-> Ingress(Filter(2, 0), ActStart),
              egress |-> NoEgress],
             [ingress |-> Ingress(Filter(0, 8), NoAction),
              egress |-> Egress(NoTci, Filter(2, 0),
                                [ActEap EXCEPT
                                   !.frame[1] = "/bin/on-start"])] }
      [] sc = "tci" ->
           { [ingress |-> NoIngress, egress |-> NoEgress],
             [ingress |-> NoIngress,
              egress |-> Egress(Tci(TCI_NO_DOT1Q, 0, 0), NoFilter,
                                NoAction)],
             [ingress |-> NoIngress,
              egress |-> Egress(Tci(5, 0, 100), NoFilter, NoAction)],
             [ingress |-> NoIngress,
              egress |-> Egress(Tci(TCI_UNTOUCHED, 1, TCI_UNTOUCHED_16),
                                NoFilter, ActStart)],
             [ingress |-> NoIngress,
              egress |-> Egress(Tci(2, TCI_UNTOUCHED, 7), NoFilter,
                                NoAction)] }
      [] sc = "mac" ->
           { [ingress |-> NoIngress, egress |-> NoEgress] }
      [] sc = "signal" ->
           { [ingress |-> NoIngress, egress |-> NoEgress],
             [ingress |-> NoIngress,
              egress |-> Egress(NoTci, Filter(2, 0), NoAction)] }
      [] sc = "script" ->
           { [ingress |-> NoIngress, egress |-> NoEgress],
             [ingress |-> Ingress(NoFilter, ActStart),
              egress |-> Egress(NoTci, NoFilter, ActStart)],
             [ingress |-> Ingress(Filter(2, 0), ActStart),
              egress |-> NoEgress] }

\* set-mac-from references and static MAC overrides of each scenario
MacPlans(sc) ==
    IF sc = "mac"
    THEN { m \in [Ifaces -> [from : {0, 1, 2}, static : BOOLEAN]] :
             \A i \in Ifaces : /\ m[i].from # i
                               /\ ~(m[i].from # 0 /\ m[i].static)
                               /\ m[i].static => i = NumIfaces }
    ELSE { [i \in Ifaces |-> [from |-> 0, static |-> FALSE]] }

\* the interface tables of a scenario
Configs(sc) ==
    IF sc = "tci"
    THEN { c \in [Ifaces -> Policies(sc)] : ~c[1].egress.set }
    ELSE IF sc = "signal"
    THEN { c \in [Ifaces -> Policies(sc)] :
             \A i \in Ifaces : c[i].egress.set <=> i = NumIfaces }
    ELSE IF sc = "script"
    THEN { c \in [Ifaces -> Policies(sc)] :
             /\ c[1].egress.set
             /\ \A i \in Ifaces \ {1, 2} : ~c[i].ingress.set }
    ELSE [Ifaces -> Policies(sc)]

MacStatic(i) == << 2, 0, 0, 0, 32, i >>

(***************************************************************************)
(* State.                                                                  *)
(***************************************************************************)
VARIABLES
    scenario,         \* which family of inputs this run draws from
    cfg,              \* per interface: ingress and egress policy (parser.h)
    oneshot,          \* args.oneshot
    ifaces,           \* per interface: mtu, skt, recv_ctr, send_ctr,
                      \*   set_mac_from, set_mac (struct iface_t)
    kern,             \* the kernel's view of each interface: up, hwaddr, mtu
    nextfd,           \* next file descriptor the kernel hands out
    kfd,              \* the kernel's view: descriptors open, epoll interest
    epfd,             \* proxy(): epoll file descriptor
    rdy_ifaces,       \* proxy(): result of the last iface_init()
    ignore_epollerr,  \* proxy(): flag
    event,            \* proxy(): struct epoll_event
    pkt,              \* proxy(): struct peapod_packet
    cursor,           \* proxy(): i of the egress loop
    pkt_buf,          \* packet.c: the main packet buffer (scratch + MPDU)
    pkt_buf_size,     \* packet.c: its size
    pc,               \* position of the process in proxy()
    status,           \* exit status once pc = "exit"
    hist,             \* history: what has been observed so far
    sig,              \* peapod.c: sig_hup, sig_int, sig_usr1, sig_term
    sigpend,          \* signals the kernel holds pending for the process
    fn                \* argument and result of a function applied on its own

vars == << scenario, cfg, oneshot, ifaces, kern, nextfd, kfd, epfd, rdy_ifaces,
           ignore_epollerr, event, pkt, cursor, pkt_buf, pkt_buf_size, pc,
           status, hist, sig, sigpend, fn >>

sigvars == << sig, sigpend >>

\* what no step of proxy() changes
config == << scenario, cfg, oneshot, fn >>

ZeroPkt ==
    [iface |-> 0, iface_orig |-> 0, len |-> 0, len_orig |-> 0,
     h_dest |-> ZeroMac, h_source |-> ZeroMac,
     vlan_valid |-> 0, vlan_valid_orig |-> 0,
     tci |-> ZeroTci, tci_orig |-> ZeroTci, type |-> 0, code |-> 0]

NoEvent == [events |-> {}, ptr |-> 0]

NoHist ==
    [nframes |-> 0,                      \* EPOLLIN events handled so far
     faults |-> 0,                       \* failures injected so far
     seq |-> 0,                          \* number of the frame in flight
     wire |-> RecvError,                     \* what recvmsg delivered for it
     last |-> [RecvError EXCEPT !.rlen = 0],
                                         \* what the last recvmsg delivered
     caps |-> [i \in Ifaces |-> 0],      \* frames captured whole, per iface
     trace |-> << >>,                    \* what was done with it, in order
     snap |-> [recv |-> [i \in Ifaces |-> 0],
               send |-> [i \in Ifaces |-> 0],
               iface |-> 0],             \* the counters when it was captured
     plan |-> [i \in Ifaces |-> [from |-> 0, static |-> FALSE]],
                                         \* set-mac options as configured
     wlog |-> [i \in Ifaces |-> << >>],  \* frame numbers written, per peer
     failed |-> [i \in Ifaces |-> << >>],
                                         \* frame numbers whose write failed
     mac_calls |-> [i \in Ifaces |-> 0], \* iface_set_mac() calls, per iface
     refs |-> {},                        \* set-mac-from walk for the frame in
                                         \*   flight: whose MAC was to be set
     mac_arg |-> ZeroMac,                \*   and the address passed
     changed |-> {},                     \* interfaces whose MAC set-mac-from
                                         \*   has set since the last restart
     restarts |-> 0,
     sfails |-> 0,                       \* scripts that did not end well
     children |-> 0,                     \* script children still running
     prev |-> [epfd |-> 0, skt |-> [i \in Ifaces |-> 0]],
                                         \* descriptors before the last restart
     nsig |-> 0,                         \* signals sent to the process
     handled |-> [s \in Signals |-> 0],  \* signal_handler() runs, per signal
     acted |-> [s \in Signals |-> 0]]    \* check_signals() acts, per signal

(***************************************************************************)
(* iface.c                                                                 *)
(***************************************************************************)
iface_count == NumIfaces

SetMacFail == {"none", "get_mac", "socket", "get_flags", "down", "set_hwaddr",
               "up", "verify"}

\* an iface_set_mac() that writes the address of an interface it has not
\* brought down, and takes the write for the verification
iface_set_mac_live(k, source, fp) ==
    IF fp = "get_mac" THEN [ret |-> -1, kern |-> k, calls |-> << "get_mac" >>]
    ELSE IF fp = "set_hwaddr"
         THEN [ret |-> -1, kern |-> k,
               calls |-> << "get_mac", "socket", "set_hwaddr" >>]
    ELSE [ret |-> 0, kern |-> [k EXCEPT !.hwaddr = source],
          calls |-> << "get_mac", "socket", "set_hwaddr" >>]

\* iface_set_mac(): result, the kernel's interface state afterwards, and the
\* calls made in order, the last one failing when it is the one fp names
iface_set_mac(k, source, fp) ==
    LET all == << "get_mac", "socket", "get_flags", "down", "set_hwaddr",
                  "up", "verify" >>
        Upto(n) == SubSeq(all, 1, n)
    IN  IF fp = "get_mac" THEN [ret |-> -1, kern |-> k, calls |-> Upto(1)]
        ELSE IF source = k.hwaddr
             THEN [ret |-> 0, kern |-> k, calls |-> Upto(1)]
        ELSE IF fp = "socket"
             THEN [ret |-> -1, kern |-> k, calls |-> Upto(2)]
        ELSE IF fp = "get_flags"
             THEN [ret |-> -1, kern |-> k, calls |-> Upto(3)]
        ELSE IF fp = "down"
             THEN [ret |-> -1, kern |-> k, calls |-> Upto(4)]
        ELSE IF fp = "set_hwaddr"
             THEN [ret |-> -1, kern |-> [k EXCEPT !.up = FALSE],
                   calls |-> Upto(5)]
        ELSE IF fp = "up"
             THEN [ret |-> -1,
                   kern |-> [k EXCEPT !.up = FALSE, !.hwaddr = source],
                   calls |-> Upto(6)]
        ELSE IF fp = "verify"
             THEN [ret |-> -1,
                   kern |-> [k EXCEPT !.up = TRUE, !.hwaddr = source],
                   calls |-> Upto(7)]
        ELSE [ret |-> 0, kern |-> [k EXCEPT !.up = TRUE, !.hwaddr = source],
              calls |-> Upto(7)]

InitFail == {"none", "validate", "get_mac", "socket", "bind", "sockopt",
             "epoll_register"}

\* descriptors are numbered in order of creation, so a number names one open
\* file and is never handed out twice; 0, 1 and 2 are the standard streams
NoFds == [open |-> {}, reg |-> {}]

\* socket(2), epoll_create(2): descriptor fd is open
fd_open(t, fd) == [t EXCEPT !.open = @ \cup {fd}]

\* a close(2) that is never made
fd_close_leak(t, fd) == t

\* close(2): the descriptor is gone, and with it the epoll registrations of
\* a socket or the interest list of an epoll instance
fd_close(t, fd) ==
    [open |-> t.open \ {fd},
     reg |-> {r \in t.reg : r[1] # fd /\ r[2] # fd}]

\* epoll_register(): EPOLL_CTL_ADD of skt on epfd
epoll_register(t, ep, skt) == [t EXCEPT !.reg = @ \cup {<< ep, skt >>}]

close_old_never(t, skt) == t

\* iface_init(), lines 288-289: close the socket of an earlier bring-up
close_old(t, skt) == IF skt # 0 THEN fd_close(t, skt) ELSE t

\* an override that is kept for another try when setting it failed
set_mac_done_retry(rec, ret) ==
    IF ret = 0 THEN [rec EXCEPT !.set_mac = Zeros(ETH_ALEN + 1)] ELSE rec

\* iface_init(), line 298: the override is cleared after iface_set_mac()
\* has returned ret
set_mac_done(rec, ret) == [rec EXCEPT !.set_mac = Zeros(ETH_ALEN + 1)]

\* one pass of the loop body of iface_init() for interface i; st carries
\* ifaces, kern, nextfd, kfd, ret and the iface_set_mac() call counts; ep is
\* the epoll descriptor.  fp names the call that fails; "sockopt" is a
\* setsockopt(2) that makes sockopt() return -1 (filter or membership),
\* "auxdata" the one for PACKET_AUXDATA, which sockopt() only logs
iface_init_one(st, ep, i, fp, mfp) ==
    LET rec == st.ifaces[i]
        k == st.kern[i]
        validated == fp # "validate" /\ k.up
        rec1 == IF validated THEN [rec EXCEPT !.mtu = k.mtu] ELSE rec
        found == validated /\ fp # "get_mac"
        setting == found /\ rec1.set_mac[ETH_ALEN + 1] = IFACE_SET_MAC
        sm == IF setting
              THEN iface_set_mac(k, SubSeq(rec1.set_mac, 1, ETH_ALEN), mfp)
              ELSE [ret |-> 0, kern |-> k]
        rec2 == IF setting THEN set_mac_done(rec1, sm.ret) ELSE rec1
        opened == found /\ fp # "socket"
        rec3 == IF ~found THEN rec2
                ELSE IF ~opened THEN [rec2 EXCEPT !.skt = -1]
                ELSE [rec2 EXCEPT !.skt = st.nextfd]
        ready == opened /\ fp \notin {"bind", "sockopt", "epoll_register"}
        t0 == close_old(st.kfd, rec.skt)
        t1 == IF opened THEN fd_open(t0, st.nextfd) ELSE t0
        t2 == IF ready THEN epoll_register(t1, ep, st.nextfd)
              ELSE IF opened THEN fd_close(t1, st.nextfd)
              ELSE t1
    IN  [ifaces |-> [st.ifaces EXCEPT ![i] = rec3],
         kfd |-> t2,
         kern |-> [st.kern EXCEPT ![i] = sm.kern],
         nextfd |-> IF opened THEN st.nextfd + 1 ELSE st.nextfd,
         ret |-> IF ready THEN st.ret + 1 ELSE st.ret,
         calls |-> IF setting THEN [st.calls EXCEPT ![i] = @ + 1]
                   ELSE st.calls]

RECURSIVE iface_init_from(_, _, _, _, _)
iface_init_from(st, ep, i, fps, mfps) ==
    IF i > NumIfaces THEN st
    ELSE CHOOSE r \in { iface_init_from(s1, ep, i + 1, fps, mfps) :
                          s1 \in {iface_init_one(st, ep, i, fps[i], mfps[i])} } :
             TRUE

\* iface_init(): fps[i] and mfps[i] name the call that fails for interface i
iface_init(ifs, ep, k, fd, t, calls, fps, mfps) ==
    iface_init_from([ifaces |-> ifs, kern |-> k, nextfd |-> fd, kfd |-> t,
                     ret |-> 0, calls |-> calls], ep, 1, fps, mfps)

\* the failure plans of one iface_init(): no call fails, or (when n > 0)
\* one call fails for one interface
NoFailure == [i \in Ifaces |-> << "none", "none" >>]

InitPlans(n) ==
    {NoFailure} \cup
    IF n > 0
    THEN { [NoFailure EXCEPT ![i] = f] :
             i \in Ifaces,
             f \in ((InitFail \ {"none"}) \X {"none"}) \cup
                   ({"none"} \X (SetMacFail \ {"none"})) }
    ELSE {}

PlanFaults(p) ==
    Cardinality({i \in DOMAIN p : p[i][1] # "none" \/ p[i][2] # "none"})

(***************************************************************************)
(* packet.c                                                                *)
(***************************************************************************)
Max(S) == CHOOSE x \in S : \A y \in S : y <= x

\* packet_init(): size of the main packet buffer
packet_init(ifs) ==
    LET high_mtu == Max({0} \cup {ifs[i].mtu : i \in Ifaces})
    IN  2 * ETH_ALEN + 4 + 2 + high_mtu

\* packet_recvmsg(): the struct peapod_packet built from one recvmsg(2)
packet_recvmsg(a, in) ==
    LET got == [ZeroPkt EXCEPT !.h_dest = in.dst, !.h_source = in.src]
        tagged == /\ in.aux.set
                  /\ in.aux.vlan_valid
                  /\ in.aux.tp_vlan_tpid = ETH_P_8021Q
        tci == IF tagged THEN tci_decode(in.aux.tp_vlan_tci) ELSE ZeroTci
        len == IF tagged THEN in.rlen + 4 ELSE in.rlen
        type == in.mpdu[4]
    IN  IF in.rlen = -1 THEN [ZeroPkt EXCEPT !.len = -1]
        ELSE IF in.rlen < MinFrameLen THEN [got EXCEPT !.len = -2]
        ELSE IF in.aux.set /\ in.rlen < in.aux.tp_len
             THEN [got EXCEPT !.len = -3]
        ELSE [got EXCEPT !.iface = a, !.iface_orig = a,
                         !.len = len, !.len_orig = len,
                         !.vlan_valid = IF tagged THEN 1 ELSE 0,
                         !.vlan_valid_orig = IF tagged THEN 1 ELSE 0,
                         !.tci = tci, !.tci_orig = tci,
                         !.type = type,
                         !.code = IF type = EAPOL_EAP THEN in.mpdu[7] ELSE 0]

\* the frame taken to start at the first scratch byte, tag or no tag
packet_buf_nooffset(buf, packet, orig) ==
    [buf |-> [buf EXCEPT !.scratch = SubSeq(@, 1, 4) \o packet.h_dest
                                       \o packet.h_source],
     start |-> 0]

\* packet_buf(): rewrites the scratch bytes in front of the MPDU and returns
\* the buffer and the offset of the first byte of the frame
\* a packet_buf() that leaves the scratch bytes of an untagged frame as the
\* last call left them
packet_buf_stale(buf, packet, orig) ==
    LET vlan_valid == IF orig = 1 THEN packet.vlan_valid_orig
                      ELSE packet.vlan_valid
        tci == IF orig = 1 THEN packet.tci_orig ELSE packet.tci
    IN  IF vlan_valid # 0
        THEN [buf |-> [buf EXCEPT !.scratch = packet.h_dest \o packet.h_source
                                              \o packet_tcitonl(tci)],
              start |-> 0]
        ELSE [buf |-> buf, start |-> 4]

packet_buf(buf, packet, orig) ==
    LET vlan_valid == IF orig = 1 THEN packet.vlan_valid_orig
                      ELSE packet.vlan_valid
        tci == IF orig = 1 THEN packet.tci_orig ELSE packet.tci
    IN  IF vlan_valid # 0
        THEN [buf |-> [buf EXCEPT !.scratch = packet.h_dest \o packet.h_source
                                              \o packet_tcitonl(tci)],
              start |-> 0]
        ELSE [buf |-> [buf EXCEPT !.scratch = SubSeq(@, 1, 4) \o packet.h_dest
                                              \o packet.h_source],
              start |-> 4]

\* the edit with every sub-field overwritten, sentinel or not
packet_send_edit_overwrite(packet, i, egress) ==
    LET p0 == [packet EXCEPT !.iface = i]
    IN  IF egress.set /\ egress.tci.set
        THEN IF egress.tci.pcp = TCI_NO_DOT1Q
             THEN [p0 EXCEPT !.vlan_valid = 0, !.tci = ZeroTci]
             ELSE [p0 EXCEPT !.vlan_valid = 1,
                             !.tci.pcp = egress.tci.pcp,
                             !.tci.dei = egress.tci.dei,
                             !.tci.vid = egress.tci.vid]
        ELSE p0

\* packet_send(), lines 362-382: the egress 802.1Q edit of the local copy
packet_send_edit(packet, i, egress) ==
    LET p0 == [packet EXCEPT !.iface = i]
    IN  IF egress.set /\ egress.tci.set
        THEN IF egress.tci.pcp = TCI_NO_DOT1Q
             THEN [p0 EXCEPT !.vlan_valid = 0, !.tci = ZeroTci]
             ELSE [p0 EXCEPT
                     !.vlan_valid = 1,
                     !.tci.pcp = IF egress.tci.pcp # TCI_UNTOUCHED
                                 THEN egress.tci.pcp ELSE @,
                     !.tci.dei = IF egress.tci.dei # TCI_UNTOUCHED
                                 THEN egress.tci.dei ELSE @,
                     !.tci.vid = IF egress.tci.vid # TCI_UNTOUCHED_16
                                 THEN egress.tci.vid ELSE @]
        ELSE p0

\* the length left as captured
packet_send_len_asis(packet) == packet.len

\* packet_send(), lines 386-389: the length after the edit
packet_send_len(packet) ==
    IF packet.vlan_valid = 1 /\ packet.vlan_valid_orig = 0
    THEN packet.len + 4
    ELSE IF packet.vlan_valid = 0 /\ packet.vlan_valid_orig = 1
    THEN packet.len - 4
    ELSE packet.len

\* the len bytes write(2) reads from the buffer at offset start
BufBytes(buf, start, len) ==
    SubSeq(buf.scratch \o buf.mpdu, start + 1, start + len)

(***************************************************************************)
(* process.c                                                               *)
(***************************************************************************)
\* the ingress filter never looked for
process_filter_noingress(packet, policy, dir) ==
    IF dir = PROCESS_EGRESS /\ policy.egress.set
       /\ policy.egress.filter.set
    THEN filter(policy.egress.filter, packet.type, packet.code)
    ELSE 0

\* process_filter(): 1 if the frame is to be dropped
process_filter(packet, policy, dir) ==
    IF dir = PROCESS_EGRESS /\ policy.egress.set
       /\ policy.egress.filter.set
    THEN filter(policy.egress.filter, packet.type, packet.code)
    ELSE IF policy.ingress.set /\ policy.ingress.filter.set
    THEN filter(policy.ingress.filter, packet.type, packet.code)
    ELSE 0

\* action->frame[t]: the array has five entries and is followed in the
\* struct by packet[5], which an index of 5..9 therefore reads; a larger
\* index reads past the struct
action_frame(action, t) ==
    IF t <= 4 THEN action.frame[t]
    ELSE IF t <= 9 THEN action.packet[t - 5]
    ELSE action.beyond

\* action->packet[c]: five entries, the last member of the struct
action_packet(action, c) ==
    IF c <= 4 THEN action.packet[c] ELSE action.beyond

\* how a script may end: exit status 0, another exit status, killed by a
\* signal, execve() fails in the child (which exits with errno), fork()
\* fails, waitpid() fails
ScriptOutcomes ==
    {"exit0", "nonzero", "signalled", "exec_fail", "fork_fail", "wait_fail"}

\* a script() that does not wait for the child
script_nowait(outcome) ==
    [forked |-> outcome # "fork_fail", ended |-> FALSE,
     warned |-> outcome # "exit0"]

\* script(): whether a child was forked, whether it has ended when script()
\* returns, and whether a warning was logged.  waitpid(-1, &status, 0)
\* returns once the child, the only child of the process, has terminated;
\* it cannot fail with EINTR, the four handled signals being blocked, and
\* where it fails with ECHILD (SIGCHLD ignored) the child has terminated
\* as well.  Nothing is returned to the caller.
script(outcome) ==
    [forked |-> outcome # "fork_fail", ended |-> outcome # "fork_fail",
     warned |-> outcome # "exit0"]

\* process_script(): the path of the script that is run, or NULL
process_script(packet, action) ==
    IF action_frame(action, packet.type) # Nil
    THEN action_frame(action, packet.type)
    ELSE IF packet.type = EAPOL_EAP
            /\ action_packet(action, packet.code) # Nil
    THEN action_packet(action, packet.code)
    ELSE Nil

(***************************************************************************)
(* peapod.c: signal_handler(); proxy.c: check_signals()                    *)
(*                                                                         *)
(* h carries the four counters, whether abort() or exit() was called, and  *)
(* how often the handler ran and check_signals() acted for each signal.    *)
(***************************************************************************)
SigState ==
    [sig |-> sig, aborted |-> FALSE, exited |-> FALSE,
     handled |-> hist.handled, acted |-> hist.acted]

\* the handler that only counts
signal_handler_noabort(h, s) ==
    IF h.aborted \/ h.exited THEN h
    ELSE [h EXCEPT !.sig[s] = @ + 1, !.handled[s] = @ + 1]

signal_handler(h, s) ==
    IF h.aborted \/ h.exited THEN h
    ELSE [h EXCEPT !.sig[s] = @ + 1,
                   !.handled[s] = @ + 1,
                   !.aborted = s \in Fatal /\ h.sig[s] + 1 > 1]

\* the handler runs for each signal of q in turn
RECURSIVE deliver(_, _)
deliver(h, q) ==
    IF q = << >> THEN h
    ELSE deliver(signal_handler(h, Head(q)), Tail(q))

\* the signals of set P in the order of delivery
PendingSeq(P) ==
    LET In(s) == s \in P
    IN  SelectSeq(SignalOrder, In)

SigDec(h, s) == [h EXCEPT !.sig[s] = @ - 1, !.acted[s] = @ + 1]

check_signals(h) ==
    IF h.aborted \/ h.exited THEN h
    ELSE LET h1 == IF h.sig["HUP"] > 0 THEN SigDec(h, "HUP") ELSE h
         IN  IF h1.sig["INT"] > 0
             THEN [SigDec(h1, "INT") EXCEPT !.exited = TRUE]
             ELSE LET h2 == IF h1.sig["USR1"] > 0 THEN SigDec(h1, "USR1")
                            ELSE h1
                  IN  IF h2.sig["TERM"] > 0
                      THEN [SigDec(h2, "TERM") EXCEPT !.exited = TRUE]
                      ELSE h2

\* proxy.c lines 242-253, the signals unblocked: the pending ones are
\* delivered, check_signals(), signals early arrive during close() and
\* nanosleep(), check_signals(), signals late arrive during create_epoll()
\* and iface_init()
restart_window(h, pend, early, late) ==
    LET h1 == check_signals(deliver(h, PendingSeq(pend)))
        h2 == check_signals(deliver(h1, early))
    IN  deliver(h2, late)

\* no signal is taken to arrive after the process has ended
\* whether the window gets as far as close(epfd), line 245
window_closes(h, pend) ==
    LET h1 == check_signals(deliver(h, PendingSeq(pend)))
    IN  ~h1.aborted /\ ~h1.exited

WindowArrivals(h, pend, early, late) ==
    LET h1 == check_signals(deliver(h, PendingSeq(pend)))
        h2 == check_signals(deliver(h1, early))
    IN  /\ (h1.aborted \/ h1.exited) => early = << >>
        /\ (h2.aborted \/ h2.exited) => late = << >>

\* signals may still be sent to the process
SigBudget == IF scenario = "signal" THEN MaxSignals - hist.nsig ELSE 0

\* the sequences of at most n signals, n <= 2
SigSeqs(n) ==
    {<< >>} \cup (IF n >= 1 THEN {<< s >> : s \in Signals} ELSE {})
            \cup (IF n >= 2 THEN {<< s, t >> : s \in Signals, t \in Signals}
                  ELSE {})

(***************************************************************************)
(* proxy.c: proxy()                                                        *)
(***************************************************************************)
Budget == MaxFaults - hist.faults

InitFor(sc) ==
    /\ scenario = sc
    /\ cfg \in Configs(scenario)
    /\ oneshot \in {0, 1}
    /\ \E plan \in MacPlans(scenario) :
         /\ ifaces = [i \in Ifaces |->
                        [mtu |-> 0, skt |-> 0, recv_ctr |-> 0, send_ctr |-> 0,
                         set_mac_from |-> plan[i].from,
                         set_mac |-> IF plan[i].static
                                     THEN MacStatic(i) \o << IFACE_SET_MAC >>
                                     ELSE Zeros(ETH_ALEN + 1)]]
         /\ hist = [NoHist EXCEPT !.plan = plan]
    /\ kern = [i \in Ifaces |->
                 [up |-> TRUE, hwaddr |-> HwAddr(i), mtu |-> KernelMtu]]
    /\ nextfd = 3
    /\ kfd = NoFds
    /\ epfd = 0
    /\ rdy_ifaces = 0
    /\ ignore_epollerr = 0
    /\ event = NoEvent
    /\ pkt = ZeroPkt
    /\ cursor = 0
    /\ pkt_buf = [scratch |-> Zeros(2 * ETH_ALEN + 4), mpdu |-> << >>]
    /\ pkt_buf_size = 0
    /\ pc = "start"
    /\ status = -1
    /\ sig = NoSignals
    /\ sigpend = {}
    /\ fn = [op |-> "none"]

Init == \E sc \in Scenarios : InitFor(sc)

all_ready_some(num_ifaces, rdy) == rdy > 0

\* line 150: the test at the top of every iteration
all_ready(num_ifaces, rdy) == num_ifaces = rdy

Exit(code) ==
    /\ pc' = "exit"
    /\ status' = code

\* lines 131-143: create_epoll(), iface_init(), packet_init()
Start ==
    /\ pc = "start"
    /\ \E plan \in InitPlans(IF Budget > 0 THEN 1 ELSE 0) :
         LET r == iface_init(ifaces, nextfd, kern, nextfd + 1,
                             fd_open(kfd, nextfd), hist.mac_calls,
                             [i \in Ifaces |-> plan[i][1]],
                             [i \in Ifaces |-> plan[i][2]])
         IN  /\ epfd' = nextfd
             /\ ifaces' = r.ifaces
             /\ kern' = r.kern
             /\ nextfd' = r.nextfd
             /\ kfd' = r.kfd
             /\ rdy_ifaces' = r.ret
             /\ pkt_buf_size' = packet_init(r.ifaces)
             /\ hist' = [hist EXCEPT !.faults = @ + PlanFaults(plan),
                                     !.mac_calls = r.calls]
    /\ pc' = "wait"
    /\ UNCHANGED << config, sigvars, ignore_epollerr, event, pkt, cursor, pkt_buf,
                    status >>

\* create_epoll() fails: ecritdie()
EpollCreateFail ==
    /\ pc \in {"start", "restart"} \/ (pc = "proxy_error" /\ oneshot # 1)
    /\ Budget > 0
    /\ LET h == IF pc = "start" THEN SigState
                ELSE restart_window(SigState, sigpend, << >>, << >>)
       IN  /\ ~h.aborted /\ ~h.exited
           /\ sig' = h.sig
           /\ sigpend' = IF pc = "start" THEN sigpend ELSE {}
           /\ hist' = [hist EXCEPT !.faults = @ + 1,
                                   !.handled = h.handled,
                                   !.acted = h.acted]
    /\ kfd' = IF pc = "start" THEN kfd ELSE fd_close(kfd, epfd)
    /\ Exit(EXIT_FAILURE)
    /\ UNCHANGED << config, ifaces, kern, nextfd, epfd, rdy_ifaces,
                    ignore_epollerr, event, pkt, cursor, pkt_buf,
                    pkt_buf_size >>

\* lines 150-151
NotReady ==
    /\ pc = "wait"
    /\ ~all_ready(iface_count, rdy_ifaces)
    /\ Exit(EXIT_FAILURE)
    /\ UNCHANGED << config, sigvars, ifaces, kern, nextfd, kfd, epfd, rdy_ifaces,
                    ignore_epollerr, event, pkt, cursor, pkt_buf,
                    pkt_buf_size, hist >>

\* lines 153-172: epoll_pwait() returns one event
Wait ==
    /\ pc = "wait"
    /\ all_ready(iface_count, rdy_ifaces)
    /\ \E a \in Ifaces, ev \in {{"EPOLLIN"}, {"EPOLLERR"}, {"EPOLLHUP"}} :
         LET benign == ignore_epollerr = 1 /\ "EPOLLERR" \in ev
         IN  /\ event' = [events |-> ev, ptr |-> a]
             /\ IF "EPOLLIN" \in ev
                THEN /\ hist.nframes < MaxFrames
                     /\ hist' = [hist EXCEPT !.nframes = @ + 1]
                     /\ pc' = "recv"
                ELSE IF benign
                THEN /\ hist' = hist
                     /\ pc' = "restart"
                ELSE /\ Budget > 0
                     /\ hist' = [hist EXCEPT !.faults = @ + 1]
                     /\ pc' = "proxy_error"
    /\ UNCHANGED << config, sigvars, ifaces, kern, nextfd, kfd, epfd, rdy_ifaces,
                    ignore_epollerr, pkt, cursor, pkt_buf, pkt_buf_size,
                    status >>

\* lines 153-158: epoll_pwait() fails, errno is not EINTR
WaitFail ==
    /\ pc = "wait"
    /\ all_ready(iface_count, rdy_ifaces)
    /\ Budget > 0
    /\ hist' = [hist EXCEPT !.faults = @ + 1]
    /\ Exit(EXIT_FAILURE)
    /\ UNCHANGED << config, sigvars, ifaces, kern, nextfd, kfd, epfd, rdy_ifaces,
                    ignore_epollerr, event, pkt, cursor, pkt_buf,
                    pkt_buf_size >>

\* recvmsg(2) stores the MPDU at the start of mpdu_buf
StoreMpdu(buf, in) ==
    [buf EXCEPT !.mpdu = in.mpdu \o SubSeq(@, Len(in.mpdu) + 1, Len(@))]

\* lines 174-179: packet_recvmsg() fails
\* lines 176-189: where the loop goes with what packet_recvmsg() returned
recv_result_strict(packet) ==
    IF packet.len < 0 THEN "proxy_error" ELSE "ingress"

recv_result_retry(packet) ==
    IF packet.len < 0 THEN "wait" ELSE "ingress"

recv_result(packet) ==
    IF packet.len = -1 THEN "proxy_error"
    ELSE IF packet.len = -2 \/ packet.len = -3 THEN "wait"
    ELSE "ingress"

\* line 191: the frame is counted on the interface it came in on
recv_count_first(ifs, a) == [ifs EXCEPT ![a].recv_ctr = 1]

recv_count(ifs, a) == [ifs EXCEPT ![a].recv_ctr = @ + 1]

RecvFail ==
    /\ pc = "recv"
    /\ Budget > 0
    /\ pkt' = packet_recvmsg(event.ptr, RecvError)
    /\ hist' = [hist EXCEPT !.faults = @ + 1, !.last = RecvError]
    /\ pc' = recv_result(pkt')
    /\ UNCHANGED << config, sigvars, ifaces, kern, nextfd, kfd, epfd, rdy_ifaces,
                    ignore_epollerr, event, cursor, pkt_buf, pkt_buf_size,
                    status >>

\* lines 180-189: a runt or giant frame is dropped
RecvDrop ==
    /\ pc = "recv"
    /\ \E in \in {RecvRunt, RecvGiant} :
         /\ pkt' = packet_recvmsg(event.ptr, in)
         /\ pkt_buf' = StoreMpdu(pkt_buf, in)
         /\ hist' = [hist EXCEPT !.last = in]
    /\ pc' = recv_result(pkt')
    /\ UNCHANGED << config, sigvars, ifaces, kern, nextfd, kfd, epfd, rdy_ifaces,
                    ignore_epollerr, event, cursor, pkt_buf_size, status >>

\* every interface with a set-mac-from reference, whichever it names
MacRefs_any(ifs, a) ==
    IF ifs[a].recv_ctr = 1
    THEN {i \in Ifaces : ifs[i].set_mac_from # 0}
    ELSE {}

\* the interfaces whose MAC is to be set from the first frame on a
MacRefs(ifs, a) ==
    IF ifs[a].recv_ctr = 1
    THEN {i \in Ifaces : ifs[i].set_mac_from = a}
    ELSE {}

\* the address passed in place of the source address
set_mac_arg_dest(packet) == packet.h_dest

\* line 206: the address handed to iface_set_mac()
set_mac_arg(packet) == packet.h_source

\* lines 174-215: a frame is captured, the receive counter is incremented
\* and the set-mac-from walk is made
RecvFrame ==
    /\ pc = "recv"
    /\ \E in \in GoodFrames(scenario) :
         LET a == event.ptr
             counted == recv_count(ifaces, a)
             refs == MacRefs(counted, a)
         IN  \E fps \in [refs -> SetMacFail] :
               LET got == packet_recvmsg(a, in)
                   set == [i \in refs |->
                             iface_set_mac(kern[i], set_mac_arg(got),
                                           fps[i])]
                   nfail == Cardinality({i \in refs : fps[i] # "none"})
               IN  /\ nfail <= Budget
                   /\ pkt' = got
                   /\ pkt_buf' = StoreMpdu(pkt_buf, in)
                   /\ ifaces' = [i \in Ifaces |->
                                   IF i \in refs
                                   THEN [counted[i] EXCEPT !.set_mac_from = 0]
                                   ELSE counted[i]]
                   /\ kern' = [i \in Ifaces |->
                                 IF i \in refs THEN set[i].kern ELSE kern[i]]
                   /\ ignore_epollerr' =
                        IF \E i \in refs : set[i].ret = 0 THEN 1
                        ELSE ignore_epollerr
                   /\ hist' = [hist EXCEPT
                        !.faults = @ + nfail,
                        !.seq = @ + 1,
                        !.wire = in,
                        !.last = in,
                        !.caps[a] = @ + 1,
                        !.trace = << >>,
                        !.snap = [recv |-> [i \in Ifaces |->
                                              ifaces[i].recv_ctr],
                                  send |-> [i \in Ifaces |->
                                              ifaces[i].send_ctr],
                                  iface |-> a],
                        !.mac_calls = [i \in Ifaces |->
                                         IF i \in refs THEN @[i] + 1
                                         ELSE @[i]],
                        !.refs = refs,
                        !.changed = @ \cup {i \in refs : set[i].ret = 0},
                        !.mac_arg = IF refs = {} THEN ZeroMac
                                    ELSE set_mac_arg(got)]
    /\ pc' = recv_result(pkt')
    /\ UNCHANGED << config, sigvars, nextfd, kfd, epfd, rdy_ifaces, event, cursor,
                    pkt_buf_size, status >>

\* what the history records of a script run (seen: the frame the child
\* encodes as PKT, from its own copy of the buffer) and of a filter decision
ScriptEv(packet, buf, dir, path, outcome) ==
    [ev |-> "script", dir |-> dir, iface |-> packet.iface, path |-> path,
     len |-> packet.len, vlan_valid |-> packet.vlan_valid,
     tci |-> packet.tci, outcome |-> outcome,
     seen |-> LET orig == packet_buf(buf, packet, 1)
                  cooked == packet_buf(orig.buf, packet, 0)
              IN  BufBytes(cooked.buf, cooked.start, packet.len),
     forked |-> script(outcome).forked, ended |-> script(outcome).ended]

FilterEv(i, dir, drop) ==
    [ev |-> "filter", dir |-> dir, iface |-> i, drop |-> drop]

WriteEv(i, bytes, len, result) ==
    [ev |-> "write", iface |-> i, bytes |-> bytes, len |-> len,
     result |-> result]

\* an ingress script that runs only for the frames the ingress filter keeps
RunScript_kept(packet, buf, action, dir, outcome) ==
    IF ~action.set \/ process_script(packet, action) = Nil THEN << >>
    ELSE IF /\ dir = PROCESS_INGRESS
            /\ process_filter(packet, cfg[packet.iface], PROCESS_INGRESS) = 1
    THEN << >>
    ELSE << ScriptEv(packet, buf, dir, process_script(packet, action),
                     outcome) >>

\* the script proxy() or packet_send() runs for the action table, if any
RunScript(packet, buf, action, dir, outcome) ==
    IF ~action.set \/ process_script(packet, action) = Nil THEN << >>
    ELSE << ScriptEv(packet, buf, dir, process_script(packet, action),
                     outcome) >>

\* how a script may end in this run; a script that is not run ends in no way
Outcomes(packet, action) ==
    IF ~action.set \/ process_script(packet, action) = Nil THEN {"exit0"}
    ELSE IF scenario = "script" /\ hist.sfails < MaxScriptFails
    THEN ScriptOutcomes
    ELSE {"exit0"}

\* the script children left running and the count of scripts that ended
\* badly, after the scripts in the events ev
AfterScripts(h, ev) ==
    LET Left(e) == e.ev = "script" /\ e.forked /\ ~e.ended
        Bad(e) == e.ev = "script" /\ e.outcome # "exit0"
    IN  [h EXCEPT !.children = @ + Len(SelectSeq(ev, Left)),
                  !.sfails = @ + Len(SelectSeq(ev, Bad))]

\* lines 217-220: ingress script, then ingress filter
IngressPhase ==
    /\ pc = "ingress"
    /\ LET a == event.ptr
           action == IF cfg[a].ingress.set THEN cfg[a].ingress.action
                     ELSE NoAction
           drop == process_filter(pkt, cfg[a], PROCESS_INGRESS)
       IN  /\ \E outcome \in Outcomes(pkt, action) :
                LET ran == RunScript(pkt, pkt_buf, action, PROCESS_INGRESS,
                                     outcome)
                IN  hist' = [AfterScripts(hist, ran) EXCEPT !.trace =
                               @ \o ran
                                 \o << FilterEv(a, PROCESS_INGRESS, drop) >>]
           /\ IF drop = 1
              THEN pc' = "wait" /\ cursor' = cursor
              ELSE pc' = "egress" /\ cursor' = 1
    /\ UNCHANGED << config, sigvars, ifaces, kern, nextfd, kfd, epfd, rdy_ifaces,
                    ignore_epollerr, event, pkt, pkt_buf, pkt_buf_size,
                    status >>

\* the egress loop that does not advance
EgressStay == pc' = "egress" /\ cursor' = cursor

\* i = i->next of the egress loop; the loop ends after the last interface
EgressNext ==
    IF cursor = NumIfaces
    THEN pc' = "wait" /\ cursor' = cursor
    ELSE pc' = "egress" /\ cursor' = cursor + 1

\* lines 224-225: the capture interface is skipped
EgressSelf ==
    /\ pc = "egress"
    /\ cursor = event.ptr
    /\ EgressNext
    /\ UNCHANGED << config, sigvars, ifaces, kern, nextfd, kfd, epfd, rdy_ifaces,
                    ignore_epollerr, event, pkt, pkt_buf, pkt_buf_size,
                    status, hist >>

\* lines 227-228: the egress filter drops the frame for this peer
EgressFiltered ==
    /\ pc = "egress"
    /\ cursor # event.ptr
    /\ process_filter(pkt, cfg[cursor], PROCESS_EGRESS) = 1
    /\ hist' = [hist EXCEPT !.trace =
                  Append(@, FilterEv(cursor, PROCESS_EGRESS, 1))]
    /\ EgressNext
    /\ UNCHANGED << config, sigvars, ifaces, kern, nextfd, kfd, epfd, rdy_ifaces,
                    ignore_epollerr, event, pkt, pkt_buf, pkt_buf_size,
                    status >>

\* packet_send() up to write(2): the local copy of the packet after the
\* 802.1Q edit, the buffer, and where in it the frame starts
packet_send(packet, i) ==
    LET edited == packet_send_edit(packet, i, cfg[i].egress)
        rebuilt == packet_buf(pkt_buf, edited, 0)
    IN  [packet |-> [edited EXCEPT !.len = packet_send_len(edited)],
         buf |-> rebuilt.buf,
         start |-> rebuilt.start]

\* what packet_send() adds to the history: egress filter decision, egress
\* script, write(2) and its result
egress_action(i) ==
    IF cfg[i].egress.set THEN cfg[i].egress.action ELSE NoAction

\* a packet_send() that gives up when the script did not end well
SendTrace_giveup(i, sent, result, outcome) ==
    << FilterEv(i, PROCESS_EGRESS, 0) >>
    \o RunScript(sent.packet, sent.buf, egress_action(i), PROCESS_EGRESS,
                 outcome)
    \o IF outcome # "exit0" THEN << >>
       ELSE << WriteEv(i, BufBytes(sent.buf, sent.start, sent.packet.len),
                       sent.packet.len, result) >>

\* a packet_send() that writes the frame before it runs the script
SendTrace_late(i, sent, result, outcome) ==
    << FilterEv(i, PROCESS_EGRESS, 0),
       WriteEv(i, BufBytes(sent.buf, sent.start, sent.packet.len),
               sent.packet.len, result) >>
    \o RunScript(sent.packet, sent.buf, egress_action(i), PROCESS_EGRESS,
                 outcome)

SendTrace(i, sent, result, outcome) ==
    << FilterEv(i, PROCESS_EGRESS, 0) >>
    \o RunScript(sent.packet, sent.buf, egress_action(i), PROCESS_EGRESS,
                 outcome)
    \o << WriteEv(i, BufBytes(sent.buf, sent.start, sent.packet.len),
                  sent.packet.len, result) >>

\* packet.c 396-413: what packet_send() returns for the result of write(2)
packet_send_ret_short(result) == IF result = "error" THEN -1 ELSE 0

packet_send_ret(result) == IF result = "ok" THEN 0 ELSE -1

\* lines 227-235, packet.c 362-414: the frame is written on this peer
EgressSend ==
    /\ pc = "egress"
    /\ cursor # event.ptr
    /\ process_filter(pkt, cfg[cursor], PROCESS_EGRESS) # 1
    /\ packet_send_ret("ok") = 0
    /\ LET sent == packet_send(pkt, cursor)
       IN  /\ pkt_buf' = sent.buf
           /\ ifaces' = [ifaces EXCEPT ![cursor].send_ctr = @ + 1]
           /\ \E outcome \in Outcomes(sent.packet, egress_action(cursor)) :
                LET did == SendTrace(cursor, sent, "ok", outcome)
                IN  hist' = [AfterScripts(hist, did) EXCEPT
                               !.trace = @ \o did,
                               !.wlog[cursor] = Append(@, hist.seq)]
    /\ EgressNext
    /\ UNCHANGED << config, sigvars, kern, nextfd, kfd, epfd, rdy_ifaces, ignore_epollerr,
                    event, pkt, pkt_buf_size, status >>

\* packet.c 396-407: write(2) fails or is short
EgressSendFail ==
    /\ pc = "egress"
    /\ cursor # event.ptr
    /\ process_filter(pkt, cfg[cursor], PROCESS_EGRESS) # 1
    /\ Budget > 0
    /\ \E result \in {"error", "short"} :
         LET sent == packet_send(pkt, cursor)
         IN  /\ pkt_buf' = sent.buf
             /\ \E outcome \in Outcomes(sent.packet, egress_action(cursor)) :
                  LET did == SendTrace(cursor, sent, result, outcome)
                  IN  hist' = [AfterScripts(hist, did) EXCEPT
                                 !.faults = @ + 1,
                                 !.trace = @ \o did,
                                 !.failed[cursor] = Append(@, hist.seq)]
             /\ IF packet_send_ret(result) = -1
                THEN /\ pc' = "proxy_error"
                     /\ cursor' = cursor
                     /\ ifaces' = ifaces
                ELSE /\ EgressNext
                     /\ ifaces' = [ifaces EXCEPT ![cursor].send_ctr = @ + 1]
    /\ UNCHANGED << config, sigvars, kern, nextfd, kfd, epfd, rdy_ifaces,
                    ignore_epollerr, event, pkt, pkt_buf_size, status >>

\* lines 239-240, 256-258: one-shot mode exits on error
ExitOnError ==
    /\ pc = "proxy_error"
    /\ oneshot = 1
    /\ Exit(EXIT_FAILURE)
    /\ UNCHANGED << config, sigvars, ifaces, kern, nextfd, kfd, epfd, rdy_ifaces,
                    ignore_epollerr, event, pkt, cursor, pkt_buf,
                    pkt_buf_size, hist >>

\* lines 241-255: the proxy restarts
Restart ==
    /\ pc = "restart" \/ (pc = "proxy_error" /\ oneshot # 1)
    /\ ignore_epollerr' = 0
    /\ \E plan \in InitPlans(IF Budget > 0 THEN 1 ELSE 0),
          early \in SigSeqs(SigBudget) :
       \E late \in SigSeqs(SigBudget - Len(early)) :
         LET r == iface_init(ifaces, nextfd, kern, nextfd + 1,
                             fd_open(fd_close(kfd, epfd), nextfd),
                             hist.mac_calls,
                             [i \in Ifaces |-> plan[i][1]],
                             [i \in Ifaces |-> plan[i][2]])
             h == restart_window(SigState, sigpend, early, late)
         IN  /\ WindowArrivals(SigState, sigpend, early, late)
             /\ ~h.aborted /\ ~h.exited
             /\ sig' = h.sig
             /\ sigpend' = {}
             /\ epfd' = nextfd
             /\ ifaces' = r.ifaces
             /\ kern' = r.kern
             /\ nextfd' = r.nextfd
             /\ kfd' = r.kfd
             /\ rdy_ifaces' = r.ret
             /\ hist' = [hist EXCEPT
                           !.faults = @ + PlanFaults(plan),
                           !.mac_calls = r.calls,
                           !.restarts = @ + 1,
                           !.changed = {},
                           !.prev = [epfd |-> epfd,
                                     skt |-> [i \in Ifaces |->
                                                ifaces[i].skt]],
                           !.nsig = @ + Len(early) + Len(late),
                           !.handled = h.handled,
                           !.acted = h.acted]
    /\ pc' = "wait"
    /\ UNCHANGED << config, event, pkt, cursor, pkt_buf, pkt_buf_size,
                    status >>

\* lines 242-250: check_signals() in the restart window finds SIGINT or
\* SIGTERM counted and exits; or the handler, run a second time for one of
\* them anywhere in the window, calls abort()
RestartEnd ==
    /\ pc = "restart" \/ (pc = "proxy_error" /\ oneshot # 1)
    /\ \E early \in SigSeqs(SigBudget) :
       \E late \in SigSeqs(SigBudget - Len(early)) :
         LET h == restart_window(SigState, sigpend, early, late)
         IN  /\ WindowArrivals(SigState, sigpend, early, late)
             /\ h.aborted \/ h.exited
             /\ sig' = h.sig
             /\ sigpend' = {}
             /\ hist' = [hist EXCEPT
                           !.nsig = @ + Len(early) + Len(late),
                           !.handled = h.handled,
                           !.acted = h.acted]
             /\ kfd' = IF window_closes(SigState, sigpend)
                       THEN fd_close(kfd, epfd) ELSE kfd
             /\ Exit(IF h.aborted THEN ABORTED ELSE EXIT_SUCCESS)
    /\ UNCHANGED << config, ifaces, kern, nextfd, epfd, rdy_ifaces,
                    ignore_epollerr, event, pkt, cursor, pkt_buf,
                    pkt_buf_size >>

\* a signal is sent to the process; it stays pending until the process
\* unblocks it
Signal ==
    /\ pc # "exit"
    /\ SigBudget > 0
    /\ \E s \in Signals : sigpend' = sigpend \cup {s}
    /\ hist' = [hist EXCEPT !.nsig = @ + 1]
    /\ UNCHANGED << config, sig, ifaces, kern, nextfd, kfd, epfd, rdy_ifaces,
                    ignore_epollerr, event, pkt, cursor, pkt_buf,
                    pkt_buf_size, pc, status >>

\* what the loop reads from event after epoll_pwait() has failed: the event
\* of an earlier iteration, or, if there was none, whatever the
\* uninitialised struct holds (ptr 0 stands for a pointer to no interface)
StaleEvents(ev) ==
    IF ev = NoEvent
    THEN [events : {{"EPOLLIN"}, {"EPOLLERR"}, {"EPOLLHUP"}},
          ptr : Ifaces \cup {0}]
    ELSE {ev}

\* lines 153-172: epoll_pwait() installs the empty mask, the pending signals
\* are delivered, it fails with EINTR, check_signals() runs, and the loop
\* goes on with lines 160-172
Interrupted ==
    /\ pc = "wait"
    /\ all_ready(iface_count, rdy_ifaces)
    /\ sigpend # {}
    /\ LET h == check_signals(deliver(SigState, PendingSeq(sigpend)))
       IN  /\ sig' = h.sig
           /\ sigpend' = {}
           /\ IF h.aborted \/ h.exited
              THEN /\ Exit(IF h.aborted THEN ABORTED ELSE EXIT_SUCCESS)
                   /\ event' = event
                   /\ hist' = [hist EXCEPT !.handled = h.handled,
                                           !.acted = h.acted]
              ELSE \E e \in StaleEvents(event) :
                     /\ event' = e
                     /\ IF e.ptr = 0
                        THEN /\ Exit(CRASHED)
                             /\ hist' = [hist EXCEPT !.handled = h.handled,
                                                     !.acted = h.acted]
                        ELSE IF "EPOLLIN" \in e.events
                        THEN /\ hist.nframes < MaxFrames
                             /\ hist' = [hist EXCEPT !.nframes = @ + 1,
                                                     !.handled = h.handled,
                                                     !.acted = h.acted]
                             /\ pc' = "recv"
                             /\ status' = status
                        ELSE /\ hist' = [hist EXCEPT !.handled = h.handled,
                                                     !.acted = h.acted]
                             /\ pc' = IF ignore_epollerr = 1
                                         /\ "EPOLLERR" \in e.events
                                      THEN "restart" ELSE "proxy_error"
                             /\ status' = status
    /\ UNCHANGED << config, ifaces, kern, nextfd, kfd, epfd, rdy_ifaces,
                    ignore_epollerr, pkt, cursor, pkt_buf, pkt_buf_size >>

Next ==
    \/ Start
    \/ EpollCreateFail
    \/ NotReady
    \/ Wait
    \/ WaitFail
    \/ RecvFail
    \/ RecvDrop
    \/ RecvFrame
    \/ IngressPhase
    \/ EgressSelf
    \/ EgressFiltered
    \/ EgressSend
    \/ EgressSendFail
    \/ ExitOnError
    \/ Restart

Spec == Init /\ [][Next]_vars

\* the proxy with signals sent to it
NextSig ==
    \/ Next
    \/ Signal
    \/ Interrupted
    \/ RestartEnd

SpecSig == InitFor("signal") /\ [][NextSig]_vars

\* the steps the process takes by itself: every step but the arrival of a
\* signal and the return of epoll_pwait() with an event, which wait for the
\* outside world
OwnStep ==
    \/ Start
    \/ EpollCreateFail
    \/ NotReady
    \/ Interrupted
    \/ RecvFail
    \/ RecvDrop
    \/ RecvFrame
    \/ IngressPhase
    \/ EgressSelf
    \/ EgressFiltered
    \/ EgressSend
    \/ EgressSendFail
    \/ ExitOnError
    \/ Restart
    \/ RestartEnd

\* the process is scheduled: it is never stopped for ever where it can take
\* a step of its own (nanosleep() and waitpid() return, the system calls of
\* the loop return)
SpecSigLive == SpecSig /\ WF_vars(OwnStep)


(***************************************************************************)
(* Functions applied on their own: packet_tcitonl() with the decode of     *)
(* packet_recvmsg(), and filter().  The variables of proxy() stay parked.  *)
(***************************************************************************)
loopvars == << scenario, cfg, oneshot, ifaces, kern, nextfd, kfd, epfd,
               rdy_ifaces, ignore_epollerr, event, pkt, cursor, pkt_buf,
               pkt_buf_size, pc, status, hist, sig, sigpend >>

ParkedAt(c) ==
    /\ scenario = "filter"
    /\ cfg = c
    /\ oneshot = 0
    /\ ifaces = [i \in Ifaces |->
                   [mtu |-> 0, skt |-> 0, recv_ctr |-> 0, send_ctr |-> 0,
                    set_mac_from |-> 0, set_mac |-> Zeros(ETH_ALEN + 1)]]
    /\ kern = [i \in Ifaces |->
                 [up |-> TRUE, hwaddr |-> HwAddr(i), mtu |-> KernelMtu]]
    /\ nextfd = 3
    /\ kfd = NoFds
    /\ epfd = 0
    /\ rdy_ifaces = 0
    /\ ignore_epollerr = 0
    /\ event = NoEvent
    /\ pkt = ZeroPkt
    /\ cursor = 0
    /\ pkt_buf = [scratch |-> Zeros(2 * ETH_ALEN + 4), mpdu |-> << >>]
    /\ pkt_buf_size = 0
    /\ pc = "parked"
    /\ status = -1
    /\ sig = NoSignals
    /\ sigpend = {}
    /\ hist = NoHist

Parked ==
    ParkedAt([i \in Ifaces |-> [ingress |-> NoIngress, egress |-> NoEgress]])

\* every TCI a tag can carry, the reserved VID 0xfff left out
TciInputs == [pcp : 0..PCP_MASK, dei : 0..DEI_MASK, vid : 0..(VID_MASK - 1)]

InitTci ==
    /\ Parked
    /\ \E t \in TciInputs :
         fn = [op |-> "tci", tci |-> t, tag |-> << >>, out |-> ZeroTci,
               done |-> FALSE]

\* packet_tcitonl(), then the tag's last two bytes read back as
\* aux->tp_vlan_tci and decoded as packet_recvmsg() does
EncodeDecode ==
    /\ fn.op = "tci"
    /\ ~fn.done
    /\ LET tag == packet_tcitonl(fn.tci)
       IN  fn' = [fn EXCEPT !.tag = tag,
                            !.out = tci_decode(tag[3] * 256 + tag[4]),
                            !.done = TRUE]
    /\ UNCHANGED loopvars

NextTci == EncodeDecode

SpecTci == InitTci /\ [][NextTci]_vars

\* masks a struct filter_t can hold, EAPOL types and EAP codes
FrameMasks == 0..255
PacketMasks == {0, 1, 2, 4, 8, 16, 30, 31, 255}
EapolTypes == 0..8
EapCodes == 0..4

InitFilter ==
    /\ Parked
    /\ \E fr \in FrameMasks, pk \in PacketMasks, t \in EapolTypes,
          c \in EapCodes :
         fn = [op |-> "filter", fltr |-> Filter(fr, pk), type |-> t,
               code |-> c, out |-> 0, again |-> 0, done |-> FALSE]

\* filter() run on the frame, and run on it once more
ApplyFilter ==
    /\ fn.op = "filter"
    /\ ~fn.done
    /\ fn' = [fn EXCEPT !.out = filter(fn.fltr, fn.type, fn.code),
                        !.again = filter(fn.fltr, fn.type, fn.code),
                        !.done = TRUE]
    /\ UNCHANGED loopvars

NextFilter == ApplyFilter

SpecFilter == InitFilter /\ [][NextFilter]_vars

\* process_script() on its own: action tables with any of the five type
\* entries and the four code entries set (packet[0] is always NULL), any
\* Packet Type and Code octet up to the bounds
FramePath == [t \in 0..4 |-> << "/bin/type0", "/bin/type1", "/bin/type2",
                                "/bin/type3", "/bin/type4" >>[t + 1]]
PacketPath == [c \in 1..4 |-> << "/bin/code1", "/bin/code2", "/bin/code3",
                                 "/bin/code4" >>[c]]
Garbage == "(garbage)"

ScriptTable(ts, cs, b) ==
    [set |-> TRUE,
     frame |-> [t \in 0..4 |-> IF t \in ts THEN FramePath[t] ELSE Nil],
     packet |-> [c \in 0..4 |-> IF c \in cs THEN PacketPath[c] ELSE Nil],
     beyond |-> b]

InitScript ==
    /\ Parked
    /\ \E ts \in SUBSET (0..4), cs \in SUBSET (1..4), b \in {Nil, Garbage},
          t \in 0..MaxType, c \in 0..MaxCode :
         fn = [op |-> "script", action |-> ScriptTable(ts, cs, b),
               type |-> t, code |-> c, out |-> Nil, done |-> FALSE]

\* process_script() run on a frame of that Type and Code
ApplyScript ==
    /\ fn.op = "script"
    /\ ~fn.done
    /\ fn' = [fn EXCEPT
                 !.out = process_script([type |-> fn.type, code |-> fn.code],
                                        fn.action),
                 !.done = TRUE]
    /\ UNCHANGED loopvars

NextScript == ApplyScript

SpecScript == InitScript /\ [][NextScript]_vars

(***************************************************************************)
(* b64enc.c.  A C string is the sequence of its characters before the      *)
(* terminating null; in[j] of the code is in[j + 1] here.                  *)
(***************************************************************************)
\* a buffer with room for the whole groups and the null only
b64len_tight(len) == 4 * (len \div 3) + 1

\* the size malloc() is asked for
b64len(len) == 4 * (len \div 3) + 5

b64 ==
    << "A", "B", "C", "D", "E", "F", "G", "H",
       "I", "J", "K", "L", "M", "N", "O", "P",
       "Q", "R", "S", "T", "U", "V", "W", "X",
       "Y", "Z", "a", "b", "c", "d", "e", "f",
       "g", "h", "i", "j", "k", "l", "m", "n",
       "o", "p", "q", "r", "s", "t", "u", "v",
       "w", "x", "y", "z", "0", "1", "2", "3",
       "4", "5", "6", "7", "8", "9", "+", "/" >>

\* x >> n and x << n on values that fit an int
Shr(x, n) == x \div (2 ^ n)
Shl(x, n) == x * (2 ^ n)

\* lines 44-48: one pass of the loop
b64enc_group(in, j) ==
    << b64[Shr(in[j + 1], 2) + 1],
       b64[BitOr(Shl(BitAnd(in[j + 1], 3), 4),
                 Shr(BitAnd(in[j + 2], 240), 4)) + 1],
       b64[BitOr(Shl(BitAnd(in[j + 2], 15), 2),
                 Shr(BitAnd(in[j + 3], 192), 6)) + 1],
       b64[BitAnd(in[j + 3], 63) + 1] >>

\* lines 43-49: the characters written and the value of j after the loop
RECURSIVE b64enc_loop(_, _, _)
b64enc_loop(in, j, ret) ==
    IF j + 2 < Len(in)
    THEN b64enc_loop(in, j + 3, ret \o b64enc_group(in, j))
    ELSE [ret |-> ret, j |-> j]

\* the tail that pads a lone byte with one '=' only
b64enc_tail_onepad(in, j) ==
    IF Len(in) - j = 1
    THEN << b64[Shr(in[j + 1], 2) + 1],
            b64[Shl(BitAnd(in[j + 1], 3), 4) + 1], "=" >>
    ELSE IF Len(in) - j = 2
    THEN << b64[Shr(in[j + 1], 2) + 1],
            b64[BitOr(Shl(BitAnd(in[j + 1], 3), 4),
                      Shr(BitAnd(in[j + 2], 240), 4)) + 1],
            b64[Shl(BitAnd(in[j + 2], 15), 2) + 1], "=" >>
    ELSE << >>

\* lines 50-60: the last one or two bytes
b64enc_tail(in, j) ==
    IF Len(in) - j = 1
    THEN << b64[Shr(in[j + 1], 2) + 1],
            b64[Shl(BitAnd(in[j + 1], 3), 4) + 1], "=", "=" >>
    ELSE IF Len(in) - j = 2
    THEN << b64[Shr(in[j + 1], 2) + 1],
            b64[BitOr(Shl(BitAnd(in[j + 1], 3), 4),
                      Shr(BitAnd(in[j + 2], 240), 4)) + 1],
            b64[Shl(BitAnd(in[j + 2], 15), 2) + 1], "=" >>
    ELSE << >>

\* lines 43-59: the indices j, j + 1, j + 2 at which in[] is read, by the
\* loop from j on and by the tail
RECURSIVE b64enc_reads(_, _)
b64enc_reads(len, j) ==
    IF j + 2 < len THEN {j, j + 1, j + 2} \cup b64enc_reads(len, j + 3)
    ELSE IF len - j = 1 THEN {j}
    ELSE IF len - j = 2 THEN {j, j + 1}
    ELSE {}

\* b64enc(): NULL if malloc() fails, else the string, the size of the
\* buffer it was written to and the indices of in[] that were read
b64enc(in, alloc) ==
    IF ~alloc THEN [null |-> TRUE, str |-> << >>, size |-> 0, reads |-> {}]
    ELSE LET l == b64enc_loop(in, 0, << >>)
         IN  [null |-> FALSE, str |-> l.ret \o b64enc_tail(in, l.j),
              size |-> b64len(Len(in)),
              reads |-> b64enc_reads(Len(in), 0)]

\* the byte strings encoded: every length up to MaxB64Len, bytes that set
\* and clear each of the bit fields the encoder cuts a byte into
B64Bytes == {0, 3, 15, 77, 97, 110, 240, 255}

RECURSIVE ByteStrings(_)
ByteStrings(n) ==
    IF n = 0 THEN {<< >>}
    ELSE ByteStrings(n - 1)
         \cup {Append(x, b) : x \in {y \in ByteStrings(n - 1) :
                                       Len(y) = n - 1},
                              b \in B64Bytes}

InitB64 ==
    /\ Parked
    /\ \E x \in ByteStrings(MaxB64Len), alloc \in BOOLEAN :
         fn = [op |-> "b64enc", in |-> x, alloc |-> alloc,
               out |-> [null |-> TRUE, str |-> << >>, size |-> 0,
                        reads |-> {}],
               done |-> FALSE]

ApplyB64 ==
    /\ fn.op = "b64enc"
    /\ ~fn.done
    /\ fn' = [fn EXCEPT !.out = b64enc(fn.in, fn.alloc), !.done = TRUE]
    /\ UNCHANGED loopvars

NextB64 == ApplyB64

SpecB64 == InitB64 /\ [][NextB64]_vars

(***************************************************************************)
(* iface_set_mac() on its own: an interface up or down with some address,  *)
(* a requested address that may be its own, and each call that may fail.   *)
(***************************************************************************)
InitMac ==
    /\ Parked
    /\ \E up \in BOOLEAN, i \in Ifaces, fp \in SetMacFail,
          source \in {MacSupp, MacAuth, MacStatic(1)}
                     \cup {HwAddr(j) : j \in Ifaces} :
         fn = [op |-> "set_mac",
               kern |-> [up |-> up, hwaddr |-> HwAddr(i), mtu |-> KernelMtu],
               source |-> source, fp |-> fp,
               out |-> [ret |-> 0,
                        kern |-> [up |-> up, hwaddr |-> HwAddr(i),
                                  mtu |-> KernelMtu],
                        calls |-> << >>],
               done |-> FALSE]

ApplyMac ==
    /\ fn.op = "set_mac"
    /\ ~fn.done
    /\ fn' = [fn EXCEPT !.out = iface_set_mac(fn.kern, fn.source, fn.fp),
                        !.done = TRUE]
    /\ UNCHANGED loopvars

SpecMac == InitMac /\ [][ApplyMac]_vars

(***************************************************************************)
(* The proxy on interfaces whose MTU an administrator may raise while it   *)
(* runs (ip link set mtu): validate() reads the MTU the kernel reports at  *)
(* each bring-up.                                                          *)
(***************************************************************************)
MaxMtuChanges == 1
JumboMtu == 6 * KernelMtu

MtuChange ==
    /\ pc \notin {"start", "exit"}
    /\ Cardinality({i \in Ifaces : kern[i].mtu # KernelMtu}) < MaxMtuChanges
    /\ \E i \in Ifaces :
         /\ kern[i].mtu = KernelMtu
         /\ kern' = [kern EXCEPT ![i].mtu = JumboMtu]
    /\ UNCHANGED << config, sigvars, ifaces, nextfd, kfd, epfd, rdy_ifaces,
                    ignore_epollerr, event, pkt, cursor, pkt_buf,
                    pkt_buf_size, pc, status, hist >>

NextMtu ==
    \/ Next
    \/ MtuChange

SpecMtu == InitFor("script") /\ [][NextMtu]_vars

(***************************************************************************)
(* The signal mask along the control flow of main() and proxy().  mask is  *)
(* the mask in effect, sigcurrent the variable of proxy(), pend the        *)
(* signals sent and not yet delivered, ran the places a handler ran at.    *)
(* The places: "entry" (line 125), "top" (150), "epoll_pwait" (153),       *)
(* "check" (155), "recv" (174), "set_mac" (194-214), "script" (216),       *)
(* "filter" (218-227), "send" (232), "window" (242-252) and "exit".        *)
(***************************************************************************)
OtherSignals == {"CHLD"}

\* a NULL pointer to a sigset_t
NullSet == {Nil}

\* sigprocmask(2) that reports the new mask as the old one
sigprocmask_new(how, set, mask) ==
    LET new == IF set = NullSet THEN mask
               ELSE IF how = "SIG_BLOCK" THEN mask \cup set
               ELSE set
    IN  [mask |-> new, old |-> new]

\* sigprocmask(2): the new mask and the one it replaces
sigprocmask(how, set, mask) ==
    LET new == IF set = NullSet THEN mask
               ELSE IF how = "SIG_BLOCK" THEN mask \cup set
               ELSE set
    IN  [mask |-> new, old |-> mask]

\* peapod.c lines 201-207, proxy.c lines 125-127: the four signals are
\* added to the mask the process was started with
InitMask ==
    /\ Parked
    /\ \E inherited \in SUBSET OtherSignals :
         LET m == sigprocmask("SIG_BLOCK", Signals, inherited).mask
         IN  fn = [op |-> "mask", at |-> "entry", mask |-> m,
                   sigcurrent |-> {}, sigempty |-> {}, restored |-> m,
                   pend |-> {}, ran |-> {}, eintr |-> FALSE,
                   restarted |-> FALSE]

\* a signal is sent to the process
MaskSignal ==
    /\ fn.op = "mask"
    /\ fn.at # "exit"
    /\ \E s \in Signals \ fn.pend : fn' = [fn EXCEPT !.pend = @ \cup {s}]
    /\ UNCHANGED loopvars

\* the kernel delivers a pending signal the mask does not block: the
\* handler runs; it makes epoll_pwait() fail with EINTR
MaskDeliver ==
    /\ fn.op = "mask"
    /\ fn.at # "exit"
    /\ \E s \in fn.pend \ fn.mask :
         fn' = [fn EXCEPT !.pend = @ \ {s},
                          !.ran = @ \cup {fn.at},
                          !.eintr = fn.at = "epoll_pwait"]
    /\ UNCHANGED loopvars

\* the process goes from one place to the next
MaskStep ==
    /\ fn.op = "mask"
    /\ \/ /\ fn.at = "entry"
          /\ fn' = [fn EXCEPT
                      !.sigcurrent =
                          sigprocmask("SIG_SETMASK", NullSet, fn.mask).old,
                      !.at = "top"]
       \/ /\ fn.at = "top"
          /\ \/ fn' = [fn EXCEPT !.at = "exit"]
             \/ fn' = [fn EXCEPT !.at = "epoll_pwait",
                                 !.mask = fn.sigempty,
                                 !.restored = fn.mask,
                                 !.restarted = FALSE,
                                 !.eintr = FALSE]
       \/ /\ fn.at = "epoll_pwait"
          /\ \/ /\ fn.eintr
                /\ fn' = [fn EXCEPT !.at = "check", !.mask = fn.restored]
             \/ /\ ~fn.eintr
                /\ \E to \in {"recv", "window", "exit"} :
                     fn' = [fn EXCEPT
                              !.at = to,
                              !.mask =
                                  IF to = "window"
                                  THEN sigprocmask("SIG_SETMASK", fn.sigempty,
                                                   fn.restored).mask
                                  ELSE fn.restored,
                              !.sigcurrent =
                                  IF to = "window"
                                  THEN sigprocmask("SIG_SETMASK", fn.sigempty,
                                                   fn.restored).old
                                  ELSE @]
       \/ /\ fn.at \in {"check", "recv", "send"}
          /\ \E to \in (CASE fn.at = "check" -> {"recv", "exit"}
                          [] fn.at = "recv" -> {"top", "set_mac", "exit"}
                          [] fn.at = "send" -> {"send", "top", "exit"})
                         \cup {"window"} :
               LET r == sigprocmask("SIG_SETMASK", fn.sigempty, fn.mask)
               IN  fn' = [fn EXCEPT
                            !.at = to,
                            !.mask = IF to = "window" THEN r.mask ELSE @,
                            !.sigcurrent = IF to = "window" THEN r.old
                                           ELSE @]
       \/ /\ fn.at = "set_mac"
          /\ fn' = [fn EXCEPT !.at = "script"]
       \/ /\ fn.at = "script"
          /\ fn' = [fn EXCEPT !.at = "filter"]
       \/ /\ fn.at = "filter"
          /\ \E to \in {"top", "send"} : fn' = [fn EXCEPT !.at = to]
       \/ /\ fn.at = "window"
          /\ \/ fn' = [fn EXCEPT !.at = "exit"]
             \/ fn' = [fn EXCEPT
                         !.mask = sigprocmask("SIG_BLOCK", fn.sigcurrent,
                                              fn.mask).mask,
                         !.restarted = TRUE,
                         !.at = "top"]
    /\ UNCHANGED loopvars

NextMask ==
    \/ MaskSignal
    \/ MaskDeliver
    \/ MaskStep

SpecMask == InitMask /\ [][NextMask]_vars

(***************************************************************************)
(* One pass of iface_init() on its own: interface i up or down, with or    *)
(* without a socket from an earlier bring-up (fd 4; the epoll instance it  *)
(* was registered with is closed) or a failed one (-1), with or without a  *)
(* static override, and each call that may fail.  The epoll instance is 5. *)
(***************************************************************************)
InitBringup ==
    /\ Parked
    /\ \E i \in Ifaces, up \in BOOLEAN, old \in {0, 4, -1},
          static \in BOOLEAN, fp \in InitFail \cup {"auxdata"},
          mfp \in {"none", "set_hwaddr"} :
         fn = [op |-> "iface_init", i |-> i, ep |-> 5, fp |-> fp,
               mfp |-> mfp,
               st |-> [ifaces |->
                         [j \in Ifaces |->
                            [mtu |-> 0, skt |-> IF j = i THEN old ELSE 0,
                             recv_ctr |-> 0, send_ctr |-> 0,
                             set_mac_from |-> 0,
                             set_mac |-> IF j = i /\ static
                                         THEN MacStatic(j)
                                              \o << IFACE_SET_MAC >>
                                         ELSE Zeros(ETH_ALEN + 1)]],
                       kern |-> [j \in Ifaces |->
                                   [up |-> j # i \/ up, hwaddr |-> HwAddr(j),
                                    mtu |-> KernelMtu]],
                       nextfd |-> 6,
                       kfd |-> IF old = 4
                               THEN [open |-> {4, 5}, reg |-> {}]
                               ELSE [open |-> {5}, reg |-> {}],
                       ret |-> i - 1,
                       calls |-> [j \in Ifaces |-> 0]],
               was |-> [ret |-> 0],
               done |-> FALSE]

ApplyBringup ==
    /\ fn.op = "iface_init"
    /\ ~fn.done
    /\ fn' = [fn EXCEPT
                 !.st = iface_init_one(fn.st, fn.ep, fn.i, fn.fp, fn.mfp),
                 !.was = fn.st,
                 !.done = TRUE]
    /\ UNCHANGED loopvars

SpecBringup == InitBringup /\ [][ApplyBringup]_vars

(***************************************************************************)
(* process.c, script(): the environment the child execs the script in.    *)
(* Only what setenv(3) adds is modelled, not what the process inherited.  *)
(***************************************************************************)
HexDigits == << "0", "1", "2", "3", "4", "5", "6", "7",
                "8", "9", "a", "b", "c", "d", "e", "f" >>

\* snprintf(buf, sizeof(buf), "%d", n), n not negative
RECURSIVE snprintf_d(_)
snprintf_d(n) ==
    IF n < 10 THEN << HexDigits[n + 1] >>
    ELSE Append(snprintf_d(n \div 10), HexDigits[(n % 10) + 1])

\* snprintf(buf, sizeof(buf), "%.08x", ntohl(tag)), tag the four bytes of a
\* tag in network order
snprintf_08x(tag) ==
    << HexDigits[(tag[1] \div 16) + 1], HexDigits[(tag[1] % 16) + 1],
       HexDigits[(tag[2] \div 16) + 1], HexDigits[(tag[2] % 16) + 1],
       HexDigits[(tag[3] \div 16) + 1], HexDigits[(tag[3] % 16) + 1],
       HexDigits[(tag[4] \div 16) + 1], HexDigits[(tag[4] % 16) + 1] >>

\* lines 160-227: the variables set, by name.  An interface name stands as
\* the interface's index, a MAC string as its bytes, a description as the
\* table and the value looked up, the timestamp (not kept in the model) as
\* "tv"; the child's packet_buf() calls rebuild its own copy of the buffer
script_env(packet, buf, ifs) ==
    LET orig == packet_buf(buf, packet, 1)
        cooked == packet_buf(orig.buf, packet, 0)
        eap == packet.type = EAPOL_EAP
        reqresp == eap /\ (packet.code = 1 \/ packet.code = 2)
        names ==
            {"PKT_TIME", "PKT_DEST", "PKT_SOURCE", "PKT_TYPE",
             "PKT_TYPE_DESC", "PKT_LENGTH_ORIG", "PKT_ORIG",
             "PKT_IFACE_ORIG", "PKT_IFACE_MTU_ORIG", "PKT_LENGTH", "PKT",
             "PKT_IFACE", "PKT_IFACE_MTU"}
            \cup (IF eap THEN {"PKT_CODE", "PKT_CODE_DESC", "PKT_ID"}
                  ELSE {})
            \cup (IF reqresp THEN {"PKT_REQRESP_TYPE", "PKT_REQRESP_DESC"}
                  ELSE {})
            \cup (IF packet.vlan_valid_orig = 1 THEN {"PKT_TCI_ORIG"}
                  ELSE {})
            \cup (IF packet.vlan_valid = 1 THEN {"PKT_TCI"} ELSE {})
    IN  [n \in names |->
           CASE n = "PKT_TIME" -> "tv"
             [] n = "PKT_DEST" -> packet.h_dest
             [] n = "PKT_SOURCE" -> packet.h_source
             [] n = "PKT_TYPE" -> snprintf_d(packet.type)
             [] n = "PKT_TYPE_DESC" ->
                  [table |-> "eapol_types", val |-> packet.type]
             [] n = "PKT_CODE" -> snprintf_d(packet.code)
             [] n = "PKT_CODE_DESC" ->
                  [table |-> "eap_codes", val |-> packet.code]
             [] n = "PKT_ID" -> snprintf_d(buf.mpdu[8])
             [] n = "PKT_REQRESP_TYPE" -> snprintf_d(buf.mpdu[11])
             [] n = "PKT_REQRESP_DESC" ->
                  [table |-> "eap_types", val |-> buf.mpdu[11]]
             [] n = "PKT_LENGTH_ORIG" -> snprintf_d(packet.len_orig)
             [] n = "PKT_ORIG" ->
                  b64enc(BufBytes(orig.buf, orig.start, packet.len_orig),
                         TRUE).str
             [] n = "PKT_IFACE_ORIG" -> packet.iface_orig
             [] n = "PKT_IFACE_MTU_ORIG" ->
                  snprintf_d(ifs[packet.iface_orig].mtu)
             [] n = "PKT_TCI_ORIG" ->
                  SubSeq(snprintf_08x(packet_tcitonl(packet.tci_orig)), 5, 8)
             [] n = "PKT_LENGTH" -> snprintf_d(packet.len)
             [] n = "PKT" ->
                  b64enc(BufBytes(cooked.buf, cooked.start, packet.len),
                         TRUE).str
             [] n = "PKT_IFACE" -> packet.iface
             [] n = "PKT_IFACE_MTU" -> snprintf_d(ifs[packet.iface].mtu)
             [] n = "PKT_TCI" ->
                  SubSeq(snprintf_08x(packet_tcitonl(packet.tci)), 5, 8)]

\* script() on its own: a frame of each kind, tagged or not, captured on one
\* interface and sent on a peer whose dot1q option strips, sets, edits or
\* leaves the tag
InitEnv ==
    \E m \in {MpduEapRequest, MpduEapSuccess, MpduStart},
       eg \in {NoEgress,
               Egress(Tci(TCI_NO_DOT1Q, 0, 0), NoFilter, NoAction),
               Egress(Tci(5, 0, 100), NoFilter, NoAction),
               Egress(Tci(TCI_UNTOUCHED, 1, TCI_UNTOUCHED_16), NoFilter,
                      NoAction)},
       a \in Ifaces :
      \E in \in {RecvOk(MacSupp, m, AuxPlain(m)),
                 RecvOk(MacSupp, m, AuxTagged(m, 45156)),
                 RecvOk(MacSupp, m, NoAux)},
         peer \in Ifaces \ {a} :
        /\ ParkedAt([i \in Ifaces |->
                       [ingress |-> NoIngress,
                        egress |-> IF i = peer THEN eg ELSE NoEgress]])
        /\ fn = [op |-> "env", in |-> in, a |-> a, peer |-> peer,
                 stage |-> "recv", dir |-> PROCESS_INGRESS,
                 packet |-> ZeroPkt, env |-> << >>]

\* the frame is captured
CaptureEnv ==
    /\ fn.op = "env"
    /\ fn.stage = "recv"
    /\ pkt' = packet_recvmsg(fn.a, fn.in)
    /\ pkt_buf' = StoreMpdu(pkt_buf, fn.in)
    /\ fn' = [fn EXCEPT !.stage = "ingress"]
    /\ UNCHANGED << scenario, cfg, oneshot, ifaces, kern, nextfd, kfd, epfd,
                    rdy_ifaces, ignore_epollerr, event, cursor, pkt_buf_size,
                    pc, status, hist, sig, sigpend >>

\* script() run on it in the ingress phase
IngressEnv ==
    /\ fn.op = "env"
    /\ fn.stage = "ingress"
    /\ fn' = [fn EXCEPT !.stage = "egress",
                        !.dir = PROCESS_INGRESS,
                        !.packet = pkt,
                        !.env = script_env(pkt, pkt_buf, ifaces)]
    /\ UNCHANGED loopvars

\* script() run on it by packet_send() on the peer
EgressEnv ==
    /\ fn.op = "env"
    /\ fn.stage = "egress"
    /\ LET sent == packet_send(pkt, fn.peer)
       IN  /\ pkt_buf' = sent.buf
           /\ fn' = [fn EXCEPT !.stage = "done",
                               !.dir = PROCESS_EGRESS,
                               !.packet = sent.packet,
                               !.env = script_env(sent.packet, sent.buf,
                                                  ifaces)]
    /\ UNCHANGED << scenario, cfg, oneshot, ifaces, kern, nextfd, kfd, epfd,
                    rdy_ifaces, ignore_epollerr, event, pkt, cursor,
                    pkt_buf_size, pc, status, hist, sig, sigpend >>

NextEnv == CaptureEnv \/ IngressEnv \/ EgressEnv

SpecEnv == InitEnv /\ [][NextEnv]_vars

(***************************************************************************)
(* Properties.  What a property says of a frame is read off the frame as   *)
(* recvmsg(2) delivered it (hist.wire) and off the interface table, not    *)
(* off the packet the loop holds.                                          *)
(***************************************************************************)
\* bit n of mask m
BitSet(m, n) == (m \div (2 ^ n)) % 2 = 1

\* the sub-fields of a 16-bit TCI value
PcpOf(v) == v \div 8192
DeiOf(v) == (v \div 4096) % 2
VidOf(v) == v % 4096

\* a tag was recovered from the auxiliary data of the captured frame
WireTagged ==
    /\ hist.wire.aux.set
    /\ hist.wire.aux.vlan_valid
    /\ hist.wire.aux.tp_vlan_tpid = ETH_P_8021Q

WireTci == IF WireTagged THEN hist.wire.aux.tp_vlan_tci ELSE 0
WireLen == hist.wire.rlen + (IF WireTagged THEN 4 ELSE 0)
WireType == hist.wire.mpdu[4]
WireCode == IF WireType = EAPOL_EAP THEN hist.wire.mpdu[7] ELSE 0

TagBytes(v) == << 129, 0, v \div 256, v % 256 >>

\* the captured frame as it was on the wire
WireBytes ==
    hist.wire.dst \o hist.wire.src
    \o (IF WireTagged THEN TagBytes(WireTci) ELSE << >>)
    \o hist.wire.mpdu

\* the decision of a filter for the captured frame
Decision(f) ==
    /\ f.set
    /\ \/ BitSet(f.frame, WireType)
       \/ WireType = EAPOL_EAP /\ BitSet(f.packet, WireCode)

IngressDrops(a) == cfg[a].ingress.set /\ Decision(cfg[a].ingress.filter)
EgressDrops(b) == cfg[b].egress.set /\ Decision(cfg[b].egress.filter)

IsWrite(e) == e.ev = "write"
IsGoodWrite(e) == e.ev = "write" /\ e.result = "ok"
IsIngressFilter(e) == e.ev = "filter" /\ e.dir = PROCESS_INGRESS
IsEgressScript(e) == e.ev = "script" /\ e.dir = PROCESS_EGRESS

\* the write(2) calls made for the frame, and those that succeeded
Attempts == SelectSeq(hist.trace, IsWrite)
Writes == SelectSeq(hist.trace, IsGoodWrite)

\* a frame has been captured and the ingress phase has run for it
IngressRan ==
    /\ hist.seq > 0
    /\ SelectSeq(hist.trace, IsIngressFilter) # << >>

\* the override of peer b, if it has one
Override(b) == cfg[b].egress.tci
HasOverride(b) == cfg[b].egress.set /\ cfg[b].egress.tci.set
NoPolicy ==
    \A i \in Ifaces : /\ ~HasOverride(i)
                      /\ ~(cfg[i].ingress.set /\ cfg[i].ingress.filter.set)
                      /\ ~(cfg[i].egress.set /\ cfg[i].egress.filter.set)

\* the peers of capture interface a whose egress filter lets the frame pass,
\* in the order of the interface list
PeersInOrder(a) ==
    LET Passes(b) == b # a /\ ~EgressDrops(b)
    IN  SelectSeq([i \in 1..NumIfaces |-> i], Passes)

WrittenOn == [k \in 1..Len(Writes) |-> Writes[k].iface]

\* the iteration for the captured frame has run to its end without a failed
\* write, and the ingress filter did not drop the frame
Relayed ==
    /\ IngressRan
    /\ pc = "wait"
    /\ ~IngressDrops(hist.snap.iface)
    /\ Attempts = Writes

\* C1: a captured frame the ingress filter lets pass is, in an iteration with
\* no send failure, written exactly once on each peer whose egress filter
\* lets it pass, in the order of the interface list, and never on the
\* capture interface.
C1_FanOut == Relayed => WrittenOn = PeersInOrder(hist.snap.iface)

\* C2: with no TCI override and no filter on any interface, what is written
\* on every peer is the captured frame as it was on the wire (destination,
\* source, the recovered tag if any, the MPDU) with its on-wire length.
C2_IdentityRelay ==
    NoPolicy =>
        \A k \in 1..Len(Writes) :
            /\ Writes[k].bytes = WireBytes
            /\ Writes[k].len = WireLen

C2_Witness ==
    /\ NoPolicy
    /\ WireTagged
    /\ Len(Writes) = NumIfaces - 1
    /\ Writes[1].bytes = WireBytes

\* the override of peer b names a PCP, a DEI and a VID
Concrete(b) ==
    /\ HasOverride(b)
    /\ Override(b).pcp \notin {TCI_NO_DOT1Q, TCI_UNTOUCHED}
    /\ Override(b).dei # TCI_UNTOUCHED
    /\ Override(b).vid # TCI_UNTOUCHED_16

Strips(b) == HasOverride(b) /\ Override(b).pcp = TCI_NO_DOT1Q

OverrideValue(b) ==
    Override(b).pcp * 8192 + Override(b).dei * 4096
    + (Override(b).vid % 4096)

\* C3: on a peer with a concrete override the written frame carries TPID
\* 0x8100 and (p<<13)|(d<<12)|(v & 0xfff) between source MAC and EtherType
\* and is 4 bytes longer than captured unless the captured frame had a tag;
\* on a peer whose override PCP is NO_DOT1Q the written frame has no tag and
\* is 4 bytes shorter than captured if the captured frame had a tag.
C3_VlanEdit ==
    \A k \in 1..Len(Writes) :
        LET e == Writes[k]
        IN  /\ Concrete(e.iface) =>
                /\ e.bytes = hist.wire.dst \o hist.wire.src
                             \o TagBytes(OverrideValue(e.iface))
                             \o hist.wire.mpdu
                /\ e.len = IF WireTagged THEN WireLen ELSE WireLen + 4
            /\ Strips(e.iface) =>
                /\ e.bytes = hist.wire.dst \o hist.wire.src
                             \o hist.wire.mpdu
                /\ e.len = IF WireTagged THEN WireLen - 4 ELSE WireLen

C3_Witness ==
    \E k, m \in 1..Len(Writes) :
        /\ Concrete(Writes[k].iface)
        /\ Strips(Writes[m].iface)
        /\ WireTagged
        /\ SubSeq(Writes[k].bytes, 13, 16) = << 129, 0, 160, 100 >>
        /\ Writes[m].len = WireLen - 4

\* the override of peer b leaves at least one sub-field as captured
Partial(b) ==
    /\ HasOverride(b)
    /\ Override(b).pcp # TCI_NO_DOT1Q
    /\ \/ Override(b).pcp = TCI_UNTOUCHED
       \/ Override(b).dei = TCI_UNTOUCHED
       \/ Override(b).vid = TCI_UNTOUCHED_16

\* the 16-bit TCI of a written frame
WrittenTci(e) == e.bytes[15] * 256 + e.bytes[16]

\* C4: on a peer with a partial override each UNTOUCHED sub-field of the
\* written TCI is that of the captured frame (zero when it had no tag) and
\* each concrete sub-field is the override's.
C4_PartialOverride ==
    \A k \in 1..Len(Writes) :
        LET e == Writes[k]
            o == Override(e.iface)
        IN  Partial(e.iface) =>
              /\ SubSeq(e.bytes, 13, 14) = << 129, 0 >>
              /\ PcpOf(WrittenTci(e)) = IF o.pcp = TCI_UNTOUCHED
                                        THEN PcpOf(WireTci) ELSE o.pcp
              /\ DeiOf(WrittenTci(e)) = IF o.dei = TCI_UNTOUCHED
                                        THEN DeiOf(WireTci) ELSE o.dei
              /\ VidOf(WrittenTci(e)) = IF o.vid = TCI_UNTOUCHED_16
                                        THEN VidOf(WireTci) ELSE o.vid

C4_Witness ==
    \E k \in 1..Len(Writes) :
        /\ Partial(Writes[k].iface)
        /\ Override(Writes[k].iface).pcp = TCI_UNTOUCHED
        /\ WireTagged
        /\ PcpOf(WireTci) = 3
        /\ PcpOf(WrittenTci(Writes[k])) = 3
        /\ DeiOf(WrittenTci(Writes[k])) = 1
        /\ VidOf(WrittenTci(Writes[k])) = 4094

\* C5: for p in 0..7, d in 0..1, v in 0..4094 the tag packet_tcitonl() makes
\* of TCI{p,d,v} starts with 0x8100, and its low 16 bits decode, as the
\* capture path decodes them, to TCI{p,d,v}.
C5_TciRoundTrip ==
    (fn.op = "tci" /\ fn.done) =>
        /\ SubSeq(fn.tag, 1, 2) = << 129, 0 >>
        /\ Len(fn.tag) = 4
        /\ fn.out = fn.tci

C5_Witness ==
    /\ fn.op = "tci"
    /\ fn.done
    /\ fn.tci = [pcp |-> 5, dei |-> 1, vid |-> VID_MASK - 1]
    /\ fn.tag = << 129, 0, 191, 254 >>

StrictlyIncreasing(q) == \A k \in 1..(Len(q) - 1) : q[k] < q[k + 1]

\* C6: on every peer the frames are written in the order they were captured,
\* each once, and no write of an earlier frame is outstanding when the next
\* frame is captured: all writes logged belong to frames up to the one in
\* flight, and none to that one before its ingress phase has run.
C6_RelayOrder ==
    \A b \in Ifaces :
        /\ StrictlyIncreasing(hist.wlog[b])
        /\ \A k \in 1..Len(hist.wlog[b]) :
             /\ hist.wlog[b][k] <= hist.seq
             /\ pc = "ingress" => hist.wlog[b][k] < hist.seq

C6_Witness ==
    \E b \in Ifaces :
        /\ hist.wlog[b] = << 1, 2 >>
        /\ hist.seq = 2

\* C7: for an interface c configured with set-mac-from a, iface_set_mac()
\* has been called for c once if a frame has been received on a and not at
\* all otherwise: it is called on the first receive on a and never again,
\* whatever its result and however often the proxy restarts.
C7_SetMacOnce ==
    \A c \in Ifaces :
        LET a == hist.plan[c].from
        IN  a # 0 =>
              hist.mac_calls[c] = IF ifaces[a].recv_ctr >= 1 THEN 1 ELSE 0

C7_Witness ==
    \E c \in Ifaces :
        /\ hist.plan[c].from # 0
        /\ ifaces[hist.plan[c].from].recv_ctr = 2
        /\ hist.mac_calls[c] = 1
        /\ hist.restarts >= 1

\* C8: filter() drops the frame exactly when bit type of the type mask is
\* set (types 0..8) or the type is EAPOL-EAP and bit code of the code mask
\* is set; running it again gives the same decision; a filter whose two
\* masks are zero never drops.
C8_FilterDecision ==
    (fn.op = "filter" /\ fn.done) =>
        /\ fn.out = 1 <=>
             \/ BitSet(fn.fltr.frame, fn.type)
             \/ fn.type = EAPOL_EAP /\ BitSet(fn.fltr.packet, fn.code)
        /\ fn.out \in {0, 1}
        /\ fn.again = fn.out
        /\ (fn.fltr.frame = 0 /\ fn.fltr.packet = 0) => fn.out = 0

C8_Witness ==
    /\ fn.op = "filter"
    /\ fn.done
    /\ fn.type = EAPOL_EAP
    /\ fn.code = 3
    /\ fn.fltr.frame = 254
    /\ fn.fltr.packet = 8
    /\ fn.out = 1

\* C9: every filter decision taken for the frame is that of the filter of
\* its own phase: at egress the egress filter of the peer (no drop when the
\* peer has none, whatever its ingress filter), at ingress the ingress
\* filter of the capture interface.
C9_PhaseIsolation ==
    \A k \in 1..Len(hist.trace) :
        LET e == hist.trace[k]
        IN  e.ev = "filter" =>
              IF e.dir = PROCESS_EGRESS
              THEN e.drop = 1 <=> EgressDrops(e.iface)
              ELSE /\ e.iface = hist.snap.iface
                   /\ e.drop = 1 <=> IngressDrops(e.iface)

\* C10: when the ingress filter of the capture interface drops the frame,
\* nothing is written for it on any peer, no egress script runs, send_ctr of
\* every interface is as it was, and recv_ctr of the capture interface has
\* been incremented.
C10_IngressDrop ==
    (IngressRan /\ IngressDrops(hist.snap.iface)) =>
        /\ pc # "egress"
        /\ Attempts = << >>
        /\ SelectSeq(hist.trace, IsEgressScript) = << >>
        /\ \A i \in Ifaces : ifaces[i].send_ctr = hist.snap.send[i]
        /\ ifaces[hist.snap.iface].recv_ctr
             = hist.snap.recv[hist.snap.iface] + 1

C10_Witness ==
    /\ IngressRan
    /\ IngressDrops(hist.snap.iface)
    /\ hist.seq = 2
    /\ \E i \in Ifaces : hist.snap.send[i] = 1
    /\ ifaces[hist.snap.iface].recv_ctr = 2

-----------------------------------------------------------------------------
\* Signals

\* INTERRUPT or TERMINATE has been sent and not yet acted upon: it is pending
\* or counted
FatalDelivered == \E s \in Fatal : s \in sigpend \/ sig[s] > 0

\* C11: once an INTERRUPT or a TERMINATE has been delivered, wherever the
\* process was, the process eventually exits, with no further signal or
\* frame needed (any exit is accepted here; an orderly one has status 0)
C11_FatalExit == FatalDelivered ~> (pc = "exit")

\* C12: a fatal-signal counter is at most 1 while the process runs; the
\* counter is the number of deliveries not yet acted upon; and a second
\* delivery before the first was acted upon has aborted the process
C12_DoubleAbort ==
    \A s \in Fatal :
        /\ sig[s] = hist.handled[s] - hist.acted[s]
        /\ pc # "exit" => sig[s] <= 1
        /\ sig[s] > 1 => pc = "exit" /\ status = ABORTED
        /\ (pc = "exit" /\ status = ABORTED) => \E t \in Fatal : sig[t] = 2

C12_Witness ==
    /\ pc = "exit"
    /\ status = ABORTED
    /\ hist.handled["INT"] = 2
    /\ hist.acted["INT"] = 0
    /\ sig["INT"] = 2

\* only HANGUP and USER1 are pending or counted, and the loop is waiting
AdvisoryOnly ==
    /\ pc = "wait"
    /\ rdy_ifaces = iface_count
    /\ sigpend # {}
    /\ sigpend \subseteq {"HUP", "USR1"}
    /\ \A s \in Fatal : sig[s] = 0

\* C13: the step that delivers HANGUP or USER1 to the waiting loop leaves
\* the loop waiting (no receive, no restart, no exit) and every interface
\* record as it was
C13_Advisory ==
    [][ (AdvisoryOnly /\ sigpend' = {}) =>
            /\ pc' = "wait"
            /\ ifaces' = ifaces
            /\ status' = status
            /\ hist'.restarts = hist.restarts
            /\ hist'.seq = hist.seq ]_vars

\* the waiting loop is interrupted by the delivery of pending signals
InterruptedWait ==
    /\ pc = "wait"
    /\ rdy_ifaces = iface_count
    /\ sigpend # {}
    /\ sigpend' = {}

\* C22: the iteration in which the wait is interrupted by a signal ends,
\* unless the process exits, back at the wait: the event record is not read
\* (the loop is not about to receive, nor at proxy_error, nor restarting),
\* no frame is captured and no interface record changes
C22_InterruptedWait ==
    [][ (InterruptedWait /\ pc' # "exit") =>
            /\ pc' = "wait"
            /\ event' = event
            /\ hist'.nframes = hist.nframes
            /\ ifaces' = ifaces ]_vars

-----------------------------------------------------------------------------
\* Set-MAC-from

\* a frame is captured: the step from the receive to the ingress phase
Captures == pc = "recv" /\ pc' = "ingress"

\* the interfaces whose set-mac-from names a, as configured at this moment
RefersTo(a) == {i \in Ifaces : ifaces[i].set_mac_from = a}

C24_DropAfterSetMac ==
    hist.refs # {} =>
        /\ pc \notin {"ingress", "egress"}
        /\ hist.trace = << >>

\* C25: the loop swallows an event (goes to the restart block without
\* treating it as an error) only if the event has the error bit and not the
\* readable bit, the ignore flag is set, and the event is on an interface
\* whose MAC set-mac-from has set; the flag is set only after such a
\* success, and every restart clears it
C25_BenignError ==
    /\ [](pc = "restart" =>
            /\ "EPOLLERR" \in event.events
            /\ "EPOLLIN" \notin event.events
            /\ ignore_epollerr = 1
            /\ event.ptr \in hist.changed)
    /\ [](ignore_epollerr = 1 => hist.changed # {})
    /\ [][hist'.restarts # hist.restarts => ignore_epollerr' = 0]_vars

\* the parts of C25 that do not name the interface
BenignFlag ==
    /\ [](pc = "restart" =>
            /\ "EPOLLERR" \in event.events
            /\ "EPOLLIN" \notin event.events
            /\ ignore_epollerr = 1)
    /\ [](ignore_epollerr = 1 => hist.changed # {})
    /\ [][hist'.restarts # hist.restarts => ignore_epollerr' = 0]_vars

-----------------------------------------------------------------------------
\* Receive failures

\* a step that handles what recvmsg(2) delivered: hist'.last is the delivery
Receives == pc = "recv" /\ pc' # "recv"
Runt == hist'.last.rlen >= 0 /\ hist'.last.rlen < 60
Giant == hist'.last.aux.set /\ hist'.last.aux.tp_len > hist'.last.rlen
Failed == hist'.last.rlen = -1

\* nothing was counted, set, run or written, and the proxy is as it was
Untouched ==
    /\ ifaces' = ifaces
    /\ kern' = kern
    /\ ignore_epollerr' = ignore_epollerr
    /\ hist'.caps = hist.caps
    /\ hist'.mac_calls = hist.mac_calls
    /\ hist'.trace = hist.trace
    /\ hist'.wlog = hist.wlog
    /\ hist'.children = hist.children
    /\ hist'.sfails = hist.sfails

\* C26: a capture of fewer than 60 bytes, or one whose auxiliary record
\* reports more bytes on the wire than were received, is dropped and the loop
\* waits again: no counter moves, no MAC is set, no script runs, nothing is
\* written, and the proxy neither restarts nor exits
C26_RuntGiant ==
    [][ (Receives /\ (Runt \/ Giant)) =>
          /\ pc' = "wait"
          /\ Untouched
          /\ hist'.restarts = hist.restarts
          /\ epfd' = epfd
          /\ rdy_ifaces' = rdy_ifaces
          /\ status' = status ]_vars

\* two frames were dropped, the second a giant, and the loop waits again
C26_Witness ==
    /\ pc = "wait"
    /\ hist.nframes = 2
    /\ hist.last.aux.tp_len > hist.last.rlen
    /\ hist.seq = 0
    /\ hist.restarts = 0
    /\ \A i \in Ifaces : ifaces[i].recv_ctr = 0

\* C27: when recvmsg(2) fails the frame is dropped uncounted and the loop
\* takes the error path, which restarts the proxy in default mode (a restart
\* that a further failure, of epoll_create(), may end) and exits with failure
\* in one-shot mode
C27_ReceiveError ==
    /\ [][ (Receives /\ Failed) => (pc' = "proxy_error" /\ Untouched) ]_vars
    /\ [][ pc = "proxy_error" =>
              IF oneshot = 1
              THEN /\ pc' = "exit"
                   /\ status' = EXIT_FAILURE
                   /\ hist'.restarts = hist.restarts
              ELSE \/ /\ pc' = "wait"
                      /\ hist'.restarts = hist.restarts + 1
                   \/ /\ pc' = "exit"
                      /\ status' = EXIT_FAILURE
                      /\ hist'.faults = hist.faults + 1 ]_vars

\* the proxy restarted after a failed receive, nothing counted
C27_Witness ==
    /\ pc = "wait"
    /\ oneshot # 1
    /\ hist.nframes = 1
    /\ hist.last.rlen = -1
    /\ hist.restarts = 1
    /\ \A i \in Ifaces : ifaces[i].recv_ctr = 0

\* one-shot mode: the process exited with failure after a failed receive
C27_WitnessOneShot ==
    /\ pc = "exit"
    /\ status = EXIT_FAILURE
    /\ oneshot = 1
    /\ hist.nframes = 1
    /\ hist.last.rlen = -1

\* C28 as written: a failed receive is retryable, the loop waits again as it
\* does after a runt or a giant frame, with no restart and no exit
C28_Retryable ==
    [][ (Receives /\ Failed) =>
          /\ pc' = "wait"
          /\ hist'.restarts = hist.restarts
          /\ epfd' = epfd ]_vars

\* C28: a failed receive is not retryable: unlike a runt or a giant frame,
\* after which the loop waits again on the same epoll instance, it never
\* leads back to the wait but through a restart of the proxy, or ends the
\* process
C28_NotRetryable ==
    /\ [][ (Receives /\ Failed) => pc' \notin {"wait", "ingress"} ]_vars
    /\ [][ (Receives /\ ~Failed /\ pc' # "ingress") =>
              (pc' = "wait" /\ epfd' = epfd) ]_vars
    /\ [](( /\ hist.last.rlen = -1
            /\ hist.nframes > 0
            /\ pc \in {"wait", "recv", "ingress", "egress"} ) =>
              /\ hist.restarts > 0
              /\ epfd # hist.prev.epfd)

\* after the failed receive and the restart it forced, a frame is relayed
C28_Witness ==
    /\ hist.restarts = 1
    /\ hist.nframes = 2
    /\ hist.faults = 1
    /\ hist.caps[1] = 1
    /\ pc = "egress"
    /\ epfd # hist.prev.epfd

-----------------------------------------------------------------------------
\* Send failures

\* a step in which write(2) on the peer under the cursor failed or was short
SendFails ==
    /\ pc = "egress"
    /\ Len(hist'.trace) > Len(hist.trace)
    /\ LET e == hist'.trace[Len(hist'.trace)]
       IN  e.ev = "write" /\ e.result # "ok"

FramesOn(i) == {hist.wlog[i][n] : n \in 1..Len(hist.wlog[i])}
FailedOn(i) == {hist.failed[i][n] : n \in 1..Len(hist.failed[i])}

C29_WitnessBefore ==
    /\ pc = "proxy_error"
    /\ event.ptr = 1
    /\ hist.failed[3] = << 1 >>
    /\ hist.wlog[2] = << 1 >>
    /\ ifaces[3].send_ctr = 0

-----------------------------------------------------------------------------
\* Receive counter

\* C30: recv_ctr of an interface is the number of frames captured whole on
\* it, at all times; a capture adds exactly one to it, and to no other,
\* before the set-mac-from walk (which sees the counter at 1 for the first
\* frame), the ingress script and the ingress filter; no step, a restart
\* included, lowers or resets it
C30_RecvCtr ==
    /\ [](\A i \in Ifaces : ifaces[i].recv_ctr = hist.caps[i])
    /\ [][ \A i \in Ifaces :
              /\ ifaces'[i].recv_ctr >= ifaces[i].recv_ctr
              /\ hist'.restarts # hist.restarts =>
                    ifaces'[i].recv_ctr = ifaces[i].recv_ctr ]_vars
    /\ [][ Captures =>
              /\ \A i \in Ifaces :
                   ifaces'[i].recv_ctr =
                     ifaces[i].recv_ctr + (IF i = event.ptr THEN 1 ELSE 0)
              /\ hist'.refs # {} => ifaces'[event.ptr].recv_ctr = 1
              /\ hist'.trace = << >> ]_vars
    /\ []((pc = "ingress") =>
            ifaces[hist.snap.iface].recv_ctr
              = hist.snap.recv[hist.snap.iface] + 1)

\* two frames were captured on interface 1, with a restart in between
C30_Witness ==
    /\ ifaces[1].recv_ctr = 2
    /\ hist.caps[1] = 2
    /\ hist.restarts = 1
    /\ hist.nframes = 2
    /\ pc = "ingress"

-----------------------------------------------------------------------------
\* Restart and readiness

\* C14: with one-shot mode set the loop never enters the restart block and
\* never has restarted: the multiplexer and the sockets are those of the
\* initial bring-up
C14_OneShotNoRestart ==
    oneshot = 1 =>
        /\ pc # "restart"
        /\ hist.restarts = 0

\* the sockets and the multiplexer the loop held before its last restart
\* are closed
OldClosed ==
    /\ hist.prev.epfd \notin kfd.open
    /\ \A i \in Ifaces : hist.prev.skt[i] \notin kfd.open

\* every interface has a socket of its own, opened by the last bring-up and
\* registered with the current multiplexer, which is itself new
AllRenewed ==
    /\ epfd \in kfd.open
    /\ epfd # hist.prev.epfd
    /\ \A i \in Ifaces :
          /\ ifaces[i].skt \in kfd.open
          /\ << epfd, ifaces[i].skt >> \in kfd.reg
          /\ \A j \in Ifaces : ifaces[i].skt # hist.prev.skt[j]
          /\ \A j \in Ifaces \ {i} : ifaces[i].skt # ifaces[j].skt
    /\ kfd.open = {epfd} \cup {ifaces[i].skt : i \in Ifaces}

C16_AllOrNothing ==
    /\ [](rdy_ifaces # iface_count => pc \in {"start", "wait", "exit"})
    /\ [][ (pc = "wait" /\ rdy_ifaces # iface_count) =>
               /\ pc' = "exit"
               /\ status' = EXIT_FAILURE
               /\ hist'.seq = hist.seq
               /\ ifaces' = ifaces ]_vars

\* a restart's bring-up left an interface not ready and the loop has exited
C16_Witness ==
    /\ pc = "exit"
    /\ status = EXIT_FAILURE
    /\ hist.restarts > 0
    /\ rdy_ifaces < iface_count
    /\ rdy_ifaces > 0

-----------------------------------------------------------------------------
\* Scripts

\* the script the action table names for a frame: the entry of its type if
\* the table has one and it is set, else, for an EAPOL-EAP frame with a code
\* in 1..4, the entry of its code, else none
Selected(action, type, code) ==
    IF type \in 0..4 /\ action.frame[type] # Nil THEN action.frame[type]
    ELSE IF type = EAPOL_EAP /\ code \in 1..4 /\ action.packet[code] # Nil
    THEN action.packet[code]
    ELSE Nil

\* C17: process_script() runs the script the table names for the frame's
\* type, else for its code, and none for a type or code that has no entry
C17_ScriptSelection ==
    (fn.op = "script" /\ fn.done) =>
        fn.out = Selected(fn.action, fn.type, fn.code)

IsScript(e) == e.ev = "script"

\* what follows script event k of the frame in flight is what follows a
\* script that succeeded: in the ingress phase the ingress filter decision
\* of the capture interface, in the egress phase the write on that peer of
\* the frame as it was handed to the script
RelayGoesOn(k) ==
    /\ k < Len(hist.trace)
    /\ LET e == hist.trace[k]
           n == hist.trace[k + 1]
       IN  IF e.dir = PROCESS_INGRESS
           THEN /\ e.iface = hist.snap.iface
                /\ n = FilterEv(e.iface, PROCESS_INGRESS,
                                IF IngressDrops(e.iface) THEN 1 ELSE 0)
           ELSE /\ n.ev = "write"
                /\ n.iface = e.iface
                /\ n.len = e.len

\* C18: however a script ends, the relay goes on after it as after a script
\* that succeeded, and it is never the reason for a restart or an exit (in
\* the runs with scripts, those happen only once a system call has failed)
C18_OutcomeIgnored ==
    /\ \A k \in 1..Len(hist.trace) : IsScript(hist.trace[k]) => RelayGoesOn(k)
    /\ (scenario = "script"
        /\ (pc \in {"proxy_error", "restart", "exit"} \/ hist.restarts > 0))
          => hist.faults > 0

\* an ingress and an egress script both ended badly for one frame, which was
\* written all the same
C18_Witness ==
    /\ \E k \in 1..Len(hist.trace) :
          /\ IsScript(hist.trace[k])
          /\ hist.trace[k].dir = PROCESS_INGRESS
          /\ hist.trace[k].outcome = "signalled"
    /\ \E k \in 1..Len(hist.trace) :
          /\ IsScript(hist.trace[k])
          /\ hist.trace[k].dir = PROCESS_EGRESS
          /\ hist.trace[k].outcome = "exec_fail"
          /\ IsGoodWrite(hist.trace[k + 1])
    /\ pc = "wait"
    /\ hist.faults = 0

-----------------------------------------------------------------------------
\* Base64 (RFC 4648, section 4)

Upper == << "A", "B", "C", "D", "E", "F", "G", "H", "I", "J", "K", "L", "M",
            "N", "O", "P", "Q", "R", "S", "T", "U", "V", "W", "X", "Y", "Z" >>
Lower == << "a", "b", "c", "d", "e", "f", "g", "h", "i", "j", "k", "l", "m",
            "n", "o", "p", "q", "r", "s", "t", "u", "v", "w", "x", "y", "z" >>
Digits == << "0", "1", "2", "3", "4", "5", "6", "7", "8", "9" >>
Alphabet == Upper \o Lower \o Digits \o << "+", "/" >>

IsB64Char(ch) == \E v \in 1..64 : Alphabet[v] = ch
B64Value(ch) == (CHOOSE v \in 1..64 : Alphabet[v] = ch) - 1

\* the padding of the last group of four characters: 0, 1 or 2 '='
PadOf(s) ==
    IF Len(s) = 0 THEN 0
    ELSE IF s[Len(s)] # "=" THEN 0
    ELSE IF s[Len(s) - 1] # "=" THEN 1
    ELSE 2

\* s is a canonical padded encoding: whole groups of four, '=' only as the
\* padding of the last group, and the bits the padding leaves unused zero
Canonical(s) ==
    /\ Len(s) % 4 = 0
    /\ \A k \in 1..(Len(s) - PadOf(s)) : IsB64Char(s[k])
    /\ PadOf(s) = 1 => B64Value(s[Len(s) - 1]) % 4 = 0
    /\ PadOf(s) = 2 => B64Value(s[Len(s) - 2]) % 16 = 0

\* the bytes of one group of four characters
DecodeGroup(g) ==
    LET v1 == B64Value(g[1])
        v2 == B64Value(g[2])
        b1 == v1 * 4 + v2 \div 16
    IN  IF g[3] = "=" THEN << b1 >>
        ELSE LET v3 == B64Value(g[3])
                 b2 == (v2 % 16) * 16 + v3 \div 4
             IN  IF g[4] = "=" THEN << b1, b2 >>
                 ELSE << b1, b2, (v3 % 4) * 64 + B64Value(g[4]) >>

RECURSIVE Decode(_)
Decode(s) ==
    IF Len(s) < 4 THEN << >>
    ELSE DecodeGroup(SubSeq(s, 1, 4)) \o Decode(SubSeq(s, 5, Len(s)))

-----------------------------------------------------------------------------
\* Script environment

\* the decimal number a string of digits writes
RECURSIVE ParseDec(_)
ParseDec(str) ==
    IF Len(str) = 0 THEN 0
    ELSE 10 * ParseDec(SubSeq(str, 1, Len(str) - 1))
         + (CHOOSE d \in 0..9 : Digits[d + 1] = str[Len(str)])

\* the frame script() was run on, as recvmsg(2) delivered it
EnvTagged ==
    /\ fn.in.aux.set
    /\ fn.in.aux.vlan_valid
    /\ fn.in.aux.tp_vlan_tpid = ETH_P_8021Q
EnvType == fn.in.mpdu[4]
EnvCode == fn.in.mpdu[7]
EnvCaptured ==
    fn.in.dst \o fn.in.src
    \o (IF EnvTagged THEN TagBytes(fn.in.aux.tp_vlan_tci) ELSE << >>)
    \o fn.in.mpdu

\* the frame as cooked for the interface the script is run for: the tag the
\* packet handed to script() carries, if any
EnvCooked ==
    fn.in.dst \o fn.in.src
    \o (IF fn.packet.vlan_valid = 1
        THEN TagBytes(fn.packet.tci.pcp * 8192 + fn.packet.tci.dei * 4096
                      + fn.packet.tci.vid)
        ELSE << >>)
    \o fn.in.mpdu

EnvRan == fn.op = "env" /\ fn.stage \in {"egress", "done"}

\* the environment is as C21 has it, the two tag variables being named
\* tci_orig and tci
EnvDescribes(tci_orig, tci) ==
    LET Has(n) == n \in DOMAIN fn.env
    IN  /\ \A n \in {"PKT_CODE", "PKT_CODE_DESC", "PKT_ID"} :
             Has(n) <=> EnvType = EAPOL_EAP
        /\ \A n \in {"PKT_REQRESP_TYPE", "PKT_REQRESP_DESC"} :
             Has(n) <=> (EnvType = EAPOL_EAP /\ EnvCode \in {1, 2})
        /\ Has(tci_orig) <=> EnvTagged
        /\ Has(tci) <=> fn.packet.vlan_valid = 1
        /\ \A n \in {"PKT_LENGTH_ORIG", "PKT_ORIG", "PKT_IFACE_ORIG",
                       "PKT_LENGTH", "PKT", "PKT_IFACE"} : Has(n)
        /\ ParseDec(fn.env["PKT_LENGTH_ORIG"]) = Len(EnvCaptured)
        /\ Decode(fn.env["PKT_ORIG"]) = EnvCaptured
        /\ fn.env["PKT_IFACE_ORIG"] = fn.a
        /\ ParseDec(fn.env["PKT_LENGTH"]) = Len(EnvCooked)
        /\ Decode(fn.env["PKT"]) = EnvCooked
        /\ fn.env["PKT_IFACE"] =
             (IF fn.dir = PROCESS_INGRESS THEN fn.a ELSE fn.peer)

\* C21: the child's environment has PKT_CODE, PKT_CODE_DESC and PKT_ID
\* exactly for an EAPOL-EAP frame, PKT_REQRESP_TYPE and PKT_REQRESP_DESC
\* exactly when its EAP code is 1 or 2 as well, PKT_DOT1Q_TCI_ORIG exactly
\* when the frame was captured with a tag and PKT_DOT1Q_TCI exactly when
\* the cooked frame carries one; PKT_LENGTH_ORIG, PKT_ORIG and
\* PKT_IFACE_ORIG are the length, the Base64 and the interface of the frame
\* as captured, PKT_LENGTH, PKT and PKT_IFACE those of the frame as cooked
C21_ScriptEnv == EnvRan => EnvDescribes("PKT_DOT1Q_TCI_ORIG", "PKT_DOT1Q_TCI")

\* the same with the names script() gives the two tag variables
EnvAsCoded ==
    EnvRan =>
      /\ EnvDescribes("PKT_TCI_ORIG", "PKT_TCI")
      /\ "PKT_DOT1Q_TCI_ORIG" \notin DOMAIN fn.env
      /\ "PKT_DOT1Q_TCI" \notin DOMAIN fn.env
      /\ fn.in.mpdu = MpduEapRequest =>
            /\ fn.env["PKT_TYPE"] = << "0" >>
            /\ fn.env["PKT_CODE"] = << "1" >>
            /\ fn.env["PKT_REQRESP_TYPE"] = << "1" >>
            /\ fn.env["PKT_ID"] = << "5" >>

\* a tagged frame's script ran on egress where the tag was stripped
EnvTaggedRan ==
    /\ EnvRan
    /\ fn.dir = PROCESS_EGRESS
    /\ EnvTagged
    /\ fn.packet.vlan_valid = 0
    /\ "PKT_TCI_ORIG" \in DOMAIN fn.env

-----------------------------------------------------------------------------
\* Order of the policies

\* the script the ingress action table of the capture interface names for
\* the frame in flight
IngressScript ==
    LET p == cfg[hist.snap.iface].ingress
    IN  IF p.set /\ p.action.set
        THEN Selected(p.action, WireType, WireCode)
        ELSE Nil

IngressVerdict ==
    FilterEv(hist.snap.iface, PROCESS_INGRESS,
             IF IngressDrops(hist.snap.iface) THEN 1 ELSE 0)

\* C31: of what is done with a captured frame the ingress script, if one
\* matches, comes first and has ended (or could not be forked) when the
\* ingress filter decides, which it does next and once; the script has run
\* whether the filter then drops the frame or not
C31_IngressOrder ==
    hist.trace # << >> =>
        /\ IF IngressScript # Nil
           THEN /\ Len(hist.trace) >= 2
                /\ IsScript(hist.trace[1])
                /\ hist.trace[1].dir = PROCESS_INGRESS
                /\ hist.trace[1].iface = hist.snap.iface
                /\ hist.trace[1].path = IngressScript
                /\ hist.trace[1].forked => hist.trace[1].ended
                /\ hist.trace[2] = IngressVerdict
           ELSE hist.trace[1] = IngressVerdict
        /\ \A k \in 1..Len(hist.trace) :
             LET e == hist.trace[k]
             IN  /\ IsIngressFilter(e) => k = (IF IngressScript # Nil THEN 2
                                               ELSE 1)
                 /\ (IsScript(e) /\ e.dir = PROCESS_INGRESS) => k = 1

\* the ingress script ran for a frame the ingress filter then dropped
C31_Witness ==
    /\ pc = "wait"
    /\ Len(hist.trace) = 2
    /\ IsScript(hist.trace[1])
    /\ hist.trace[1].dir = PROCESS_INGRESS
    /\ hist.trace[1].ended
    /\ hist.trace[2] = FilterEv(hist.snap.iface, PROCESS_INGRESS, 1)

IsEgressFilter(e) == e.ev = "filter" /\ e.dir = PROCESS_EGRESS

\* event k of the frame in flight belongs to the egress on peer i
OnPeer(k, i) ==
    LET e == hist.trace[k]
    IN  /\ e.iface = i
        /\ IsEgressFilter(e) \/ IsEgressScript(e) \/ IsWrite(e)

\* the tag a frame of bytes carries after the source MAC, if any
TagOf(bytes) ==
    IF SubSeq(bytes, 13, 14) = << 129, 0 >> THEN SubSeq(bytes, 13, 16)
    ELSE << >>

C32_WitnessDropped ==
    \E k \in 1..Len(hist.trace) :
        LET e == hist.trace[k]
        IN  /\ IsEgressFilter(e)
            /\ e.drop = 1
            /\ cfg[e.iface].egress.action.set
            /\ Selected(cfg[e.iface].egress.action, WireType, WireCode) # Nil
            /\ pc = "wait"

-----------------------------------------------------------------------------
\* Egress independence

\* the TCI peer b's own override makes of the captured frame's (zero where
\* the frame had no tag), and whether the frame leaves b with a tag
OwnTci(b) ==
    LET o == Override(b)
        pcp == IF HasOverride(b) /\ o.pcp # TCI_UNTOUCHED THEN o.pcp
               ELSE PcpOf(WireTci)
        dei == IF HasOverride(b) /\ o.dei # TCI_UNTOUCHED THEN o.dei
               ELSE DeiOf(WireTci)
        vid == IF HasOverride(b) /\ o.vid # TCI_UNTOUCHED_16 THEN o.vid % 4096
               ELSE VidOf(WireTci)
    IN  pcp * 8192 + dei * 4096 + vid

OwnTagged(b) ==
    IF HasOverride(b) THEN ~Strips(b) ELSE WireTagged

\* what leaves on peer b, by the captured frame and b's policy alone
OwnBytes(b) ==
    hist.wire.dst \o hist.wire.src
    \o (IF OwnTagged(b) THEN TagBytes(OwnTci(b)) ELSE << >>)
    \o hist.wire.mpdu

\* C33: whatever was done for the peers served before it, the bytes and the
\* length of each write on a peer are those the captured frame and the
\* peer's own egress policy determine
C33_EgressIndependence ==
    \A k \in 1..Len(hist.trace) :
        LET e == hist.trace[k]
        IN  IsWrite(e) => /\ e.bytes = OwnBytes(e.iface)
                          /\ e.len = Len(OwnBytes(e.iface))

\* a tagged frame captured on interface 1 left untagged on peer 2, which
\* strips tags, and then with its original tag on peer 3, which has no
\* override
C33_Witness ==
    /\ hist.snap.iface = 1
    /\ WireTagged
    /\ Strips(2)
    /\ ~HasOverride(3)
    /\ Len(Writes) = 2
    /\ TagOf(Writes[1].bytes) = << >>
    /\ Writes[2].iface = 3
    /\ TagOf(Writes[2].bytes) = TagBytes(WireTci)
    /\ Writes[2].len = Writes[1].len + 4

-----------------------------------------------------------------------------
\* MAC change

\* the calls of iface_set_mac() that change or verify the interface
MacSteps == << "down", "set_hwaddr", "up", "verify" >>
StepsOf(calls) ==
    LET IsStep(c) == \E n \in 1..4 : MacSteps[n] = c
    IN  SelectSeq(calls, IsStep)

\* C34: a request for the address the interface has returns success with
\* the interface untouched; any other runs bring down, write address, bring
\* up, verify in that order and stops at the first call that fails, with an
\* error and the interface as the calls before left it (down if the write
\* of the address failed); it returns success only after all four, with the
\* interface up under the requested address
C34_SetMac ==
    (fn.op = "set_mac" /\ fn.done) =>
        LET out == fn.out
            steps == StepsOf(out.calls)
            same == fn.source = fn.kern.hwaddr
            Made(c) == \E n \in 1..Len(out.calls) : out.calls[n] = c
        IN  /\ (same /\ fn.fp # "get_mac") =>
                  (out.ret = 0 /\ out.kern = fn.kern /\ steps = << >>)
            /\ steps = SubSeq(MacSteps, 1, Len(steps))
            /\ Made("set_hwaddr") => (Made("down") /\ fn.fp # "down")
            /\ (Made(fn.fp) /\ fn.fp # "none") =>
                  /\ out.ret = -1
                  /\ out.calls[Len(out.calls)] = fn.fp
            /\ out.kern.up =
                  (IF Made("down") /\ fn.fp # "down"
                   THEN Made("up") /\ fn.fp # "up"
                   ELSE fn.kern.up)
            /\ out.kern.hwaddr =
                  (IF Made("set_hwaddr") /\ fn.fp # "set_hwaddr"
                   THEN fn.source ELSE fn.kern.hwaddr)
            /\ out.ret = 0 <=>
                  \/ same /\ fn.fp # "get_mac"
                  \/ steps = MacSteps /\ fn.fp = "none"
            /\ out.ret = 0 => out.kern.hwaddr = fn.source
            /\ out.ret \in {0, -1}

\* the write of the address failed: the interface is left down under its
\* old address, and it was never brought up again
C34_Witness ==
    /\ fn.op = "set_mac"
    /\ fn.done
    /\ fn.fp = "set_hwaddr"
    /\ fn.kern.up
    /\ fn.out.ret = -1
    /\ ~fn.out.kern.up
    /\ fn.out.kern.hwaddr = fn.kern.hwaddr
    /\ StepsOf(fn.out.calls) = << "down", "set_hwaddr" >>

-----------------------------------------------------------------------------
\* Static MAC override

\* the sentinel byte of interface i's override is set
Armed(i) == ifaces[i].set_mac[ETH_ALEN + 1] = IFACE_SET_MAC

\* C35: iface_set_mac() is called for a static override only while the
\* sentinel byte is set, with the override as the address, and the override
\* is cleared by the same bring-up whether the call succeeded or not; so
\* over all bring-ups, restarts included, it is called at most once for the
\* interface, and the override is armed exactly until then
C35_StaticOnce ==
    /\ [][ \A i \in Ifaces :
              (hist.plan[i].static
               /\ hist'.mac_calls[i] # hist.mac_calls[i]) =>
                  /\ Armed(i)
                  /\ hist'.mac_calls[i] = hist.mac_calls[i] + 1
                  /\ ifaces'[i].set_mac = Zeros(ETH_ALEN + 1)
                  /\ kern'[i].hwaddr \in {kern[i].hwaddr, MacStatic(i)} ]_vars
    /\ [](\A i \in Ifaces :
            hist.plan[i].static =>
              /\ hist.mac_calls[i] <= 1
              /\ Armed(i) <=> hist.mac_calls[i] = 0)

\* the call for the override failed at the first bring-up and the proxy
\* has since restarted without another call
C35_Witness ==
    /\ hist.plan[NumIfaces].static
    /\ hist.restarts >= 1
    /\ hist.mac_calls[NumIfaces] = 1
    /\ kern[NumIfaces].hwaddr # MacStatic(NumIfaces)
    /\ ~Armed(NumIfaces)
    /\ pc = "wait"

-----------------------------------------------------------------------------
\* Bring-up failures

\* C36: the pass of iface_init() counts the interface exactly when the
\* interface was up and validate(), get_mac(), socket(), bind(), the filter
\* and membership options and epoll_register() all succeeded, the
\* auxiliary-data option failing or not; it is then left with its new
\* socket open and registered.  When bind(), sockopt() or epoll_register()
\* fails the socket just opened is closed again, registered nowhere, and the
\* interface is not counted
C36_Bringup ==
    (fn.op = "iface_init" /\ fn.done) =>
        LET i == fn.i
            new == fn.was.nextfd
            counted == fn.st.ret = fn.was.ret + 1
            Registered(fd) == \E r \in fn.st.kfd.reg : r[2] = fd
        IN  /\ counted <=> (fn.was.kern[i].up
                             /\ fn.fp \in {"none", "auxdata"})
            /\ ~counted => fn.st.ret = fn.was.ret
            /\ counted =>
                  /\ fn.st.ifaces[i].skt = new
                  /\ new \in fn.st.kfd.open
                  /\ << fn.ep, new >> \in fn.st.kfd.reg
                  /\ fn.st.ifaces[i].mtu = fn.was.kern[i].mtu
            /\ (fn.was.kern[i].up
                /\ fn.fp \in {"bind", "sockopt", "epoll_register"}) =>
                  /\ fn.st.nextfd = new + 1
                  /\ new \notin fn.st.kfd.open
                  /\ ~Registered(new)
            /\ (~fn.was.kern[i].up
                \/ fn.fp \in {"validate", "get_mac", "socket"}) =>
                  /\ fn.st.nextfd = new
                  /\ fn.st.kfd.open \subseteq fn.was.kfd.open
            /\ \A j \in Ifaces \ {i} : fn.st.ifaces[j] = fn.was.ifaces[j]

\* the auxiliary-data option failed and the interface was counted
C36_Witness ==
    /\ fn.op = "iface_init"
    /\ fn.done
    /\ fn.fp = "auxdata"
    /\ fn.st.ret = fn.was.ret + 1
    /\ << 5, 6 >> \in fn.st.kfd.reg

\* epoll_register() failed: the socket was opened and closed again
C36_WitnessClosed ==
    /\ fn.op = "iface_init"
    /\ fn.done
    /\ fn.fp = "epoll_register"
    /\ fn.st.nextfd = 7
    /\ 6 \notin fn.st.kfd.open
    /\ fn.st.ret = fn.was.ret

-----------------------------------------------------------------------------
\* Frame buffer capacity

HighMtu == Max({0} \cup {ifaces[i].mtu : i \in Ifaces})

\* C37: whenever the loop can capture a frame the main buffer has room for
\* two hardware addresses, a VLAN tag, the EtherType and the highest MTU
\* recorded for the interfaces, and the part recvmsg(2) fills has room for
\* the EtherType and that MTU
C37_BufferSize ==
    (pc \in {"wait", "recv"} /\ all_ready(iface_count, rdy_ifaces)) =>
        /\ pkt_buf_size = 2 * ETH_ALEN + 4 + 2 + HighMtu
        /\ pkt_buf_size - (2 * ETH_ALEN + 4) = 2 + HighMtu

\* after a restart that recorded a raised MTU the loop waits for frames
C37_Restarted ==
    /\ pc = "wait"
    /\ all_ready(iface_count, rdy_ifaces)
    /\ hist.restarts > 0
    /\ HighMtu = JumboMtu

-----------------------------------------------------------------------------
\* Signal masking

MaskBusy == {"check", "recv", "set_mac", "script", "filter", "send"}

\* C38: HUP, INT, USR1 and TERM are blocked wherever the loop receives,
\* applies policy, runs or waits for a script, or writes, and at the top of
\* every iteration, the first after a restart included; a handler has run
\* nowhere but inside epoll_pwait() and inside the restart window
C38_Masking ==
    fn.op = "mask" =>
        /\ fn.at \in MaskBusy \cup {"top"} => Signals \subseteq fn.mask
        /\ fn.ran \subseteq {"epoll_pwait", "window"}
        /\ fn.at \in {"epoll_pwait", "window"} => fn.mask = {}

\* the loop is back at the top after a restart, handlers having run both
\* inside the wait and inside the window
C38_Witness ==
    /\ fn.op = "mask"
    /\ fn.at = "top"
    /\ fn.restarted
    /\ fn.ran = {"epoll_pwait", "window"}
    /\ fn.pend # {}

-----------------------------------------------------------------------------
\* Send counter

\* the writes on interface i in this step that returned the full length of
\* the frame
FullWrites(i) ==
    IF pc # "egress" THEN 0
    ELSE Cardinality({n \in (Len(hist.trace) + 1)..Len(hist'.trace) :
                        /\ hist'.trace[n].ev = "write"
                        /\ hist'.trace[n].iface = i
                        /\ hist'.trace[n].result = "ok"})

\* C39: send_ctr of an interface goes up by one in a step that writes a
\* whole frame on it and stays as it is in every other step (a failed or
\* short write, a frame its egress filter drops, a restart); it is always
\* the number of frames written whole on the interface
C39_SendCtr ==
    /\ [][ \A i \in Ifaces :
             /\ FullWrites(i) \in {0, 1}
             /\ ifaces'[i].send_ctr = ifaces[i].send_ctr + FullWrites(i) ]_vars
    /\ [](\A i \in Ifaces : ifaces[i].send_ctr = Len(hist.wlog[i]))

\* two frames were written whole on one interface, a write on another failed
\* and the proxy has restarted
C39_Witness ==
    /\ pc = "wait"
    /\ hist.restarts = 1
    /\ \E i \in Ifaces : ifaces[i].send_ctr = 2
    /\ \E j \in Ifaces : Len(hist.failed[j]) = 1 /\ ifaces[j].send_ctr = 1

-----------------------------------------------------------------------------
\* Base64 buffer bound

=============================================================================
